---- MODULE Spec2Model ----
(***************************************************************************)
(* Verification model of the kronop video engine                           *)
(* (src/AllReels/modules/kronop-video-engine/src).                          *)
(*                                                                         *)
(*   CacheManager  (cache_manager.rs)  : the chunk cache                    *)
(*   FrameBuffer   (frame_buffer.rs)   : the playback ring                  *)
(*                                                                         *)
(* Sizes are bytes and times are milliseconds, as in the code.  A byte     *)
(* string (a payload handed to store_chunk, the contents of a chunk file)  *)
(* is written as the list of its maximal runs, <<[b |-> byte, n |-> count],*)
(* ...>>, so that the 100000-byte payloads of the tests are values the     *)
(* model can hold.  Two byte strings are equal iff their run lists are.    *)
(***************************************************************************)
EXTENDS Integers, Sequences, FiniteSets, TLC

(***************************************************************************)
(* Byte strings as run lists                                               *)
(***************************************************************************)
Run(b, n) == [b |-> b, n |-> n]

\* x followed by y, merging the run that may straddle the boundary
Concat(x, y) ==
    IF Len(x) = 0 THEN y
    ELSE IF Len(y) = 0 THEN x
    ELSE IF x[Len(x)].b = y[1].b
         THEN SubSeq(x, 1, Len(x) - 1)
              \o <<Run(y[1].b, x[Len(x)].n + y[1].n)>>
              \o SubSeq(y, 2, Len(y))
         ELSE x \o y

RECURSIVE CanonRange(_, _, _)
CanonRange(s, lo, hi) ==
    IF lo > hi THEN <<>>
    ELSE IF lo = hi THEN (IF s[lo].n = 0 THEN <<>> ELSE <<s[lo]>>)
    ELSE LET mid == (lo + hi) \div 2
         IN  Concat(CanonRange(s, lo, mid), CanonRange(s, mid + 1, hi))

\* the run list of the bytes s[1], ..., s[Len(s)]
FromBytes(s) == CanonRange([i \in 1..Len(s) |-> Run(s[i], 1)], 1, Len(s))

\* vec![0; n]
Zeros(n) == IF n = 0 THEN <<>> ELSE <<Run(0, n)>>

RECURSIVE SizeRange(_, _, _)
SizeRange(s, lo, hi) ==
    IF lo > hi THEN 0
    ELSE IF lo = hi THEN s[lo].n
    ELSE LET mid == (lo + hi) \div 2
         IN  SizeRange(s, lo, mid) + SizeRange(s, mid + 1, hi)

\* data.len()
Size(s) == SizeRange(s, 1, Len(s))

(***************************************************************************)
(* compress_data / decompress_data (cache_manager.rs:503-557)              *)
(***************************************************************************)
MaxRunCount == 255
RleThreshold == 3

\* What the outer loop of compress_data emits for one maximal run of n
\* bytes b: the inner loop stops a count at 255, so the run is cut into
\* n \div 255 counts of 255 and one count of n % 255; a count above 3 is
\* written as the pair (count, byte), a count of at most 3 as raw bytes.
CompressRun(b, n) ==
    LET q == n \div MaxRunCount
        r == n % MaxRunCount
        \* q pairs (255, b): alternating runs, one run when b = 255
        full == IF q = 0 THEN <<>>
                ELSE IF b = MaxRunCount THEN <<Run(b, 2 * q)>>
                ELSE [i \in 1..(2 * q) |->
                        IF i % 2 = 1 THEN Run(MaxRunCount, 1) ELSE Run(b, 1)]
        rest == IF r > RleThreshold THEN Concat(<<Run(r, 1)>>, <<Run(b, 1)>>)
                ELSE IF r > 0 THEN <<Run(b, r)>>
                ELSE <<>>
    IN  Concat(full, rest)

RECURSIVE CompressRange(_, _, _)
CompressRange(data, lo, hi) ==
    IF lo > hi THEN <<>>
    ELSE IF lo = hi THEN CompressRun(data[lo].b, data[lo].n)
    ELSE LET mid == (lo + hi) \div 2
         IN  Concat(CompressRange(data, lo, mid),
                    CompressRange(data, mid + 1, hi))

compress_data(data) == CompressRange(data, 1, Len(data))

\* decompress_data reads the file left to right.  Its position is either
\* at the start of an item (Aligned) or just behind a first byte c <= 3
\* that has a successor, which it takes as a count (pending c).
Aligned == 0 - 1

\* n bytes b read from the start of an item.  A byte above 3 is raw.  A
\* byte of at most 3 that has a successor is a count and the successor the
\* value; only the very last byte of the file has no successor.
AlignedRun(b, n, atEnd) ==
    IF n = 0 THEN [out |-> <<>>, st |-> Aligned]
    ELSE IF b > RleThreshold THEN [out |-> <<Run(b, n)>>, st |-> Aligned]
    ELSE LET pairs == n \div 2
             body == IF b * pairs > 0 THEN <<Run(b, b * pairs)>> ELSE <<>>
         IN  IF n % 2 = 0 THEN [out |-> body, st |-> Aligned]
             ELSE IF atEnd THEN [out |-> Concat(body, <<Run(b, 1)>>),
                                 st |-> Aligned]
             ELSE [out |-> body, st |-> b]

DecompressRun(b, n, st, atEnd) ==
    IF st = Aligned THEN AlignedRun(b, n, atEnd)
    ELSE LET first == IF st > 0 THEN <<Run(b, st)>> ELSE <<>>
             more == AlignedRun(b, n - 1, atEnd)
         IN  [out |-> Concat(first, more.out), st |-> more.st]

RECURSIVE DecompressRange(_, _, _, _)
DecompressRange(file, lo, hi, st) ==
    IF lo > hi THEN [out |-> <<>>, st |-> st]
    ELSE IF lo = hi
         THEN DecompressRun(file[lo].b, file[lo].n, st, lo = Len(file))
    ELSE LET mid == (lo + hi) \div 2
             left == DecompressRange(file, lo, mid, st)
             right == DecompressRange(file, mid + 1, hi, left.st)
         IN  [out |-> Concat(left.out, right.out), st |-> right.st]

decompress_data(compressed) ==
    DecompressRange(compressed, 1, Len(compressed), Aligned).out

(***************************************************************************)
(* CacheManager (cache_manager.rs)                                         *)
(***************************************************************************)
VARIABLES
    config,              \* CacheMetadata.config
    chunks,              \* CacheMetadata.chunks: chunk id -> ChunkMetadata
    files,               \* the chunk files of cache_dir: chunk id -> bytes
    current_cache_size,  \* CacheManager.current_cache_size
    stats,               \* CacheManager.stats
    now,                 \* SystemTime::now(), ms
    parked,              \* the mutex the caller waits on while holding it
    ret,                 \* the last call and what it returned
    stored_data          \* the data each store_chunk call was given

cacheState == <<config, chunks, files, current_cache_size, stats,
                parked, ret, stored_data>>

\* FrameBuffer (frame_buffer.rs:13-36)
VARIABLES
    max_frames,
    target_fps,
    min_predecoded_frames,
    frames,                  \* VecDeque<BufferedFrame>, front first
    current_frame_index,
    total_frames_processed,
    dropped_frames,
    last_frame_timestamp,
    predecode_queue,
    frames_decoded,          \* frames the decoder has handed out so far
    fb_ret,                  \* the last FrameBuffer call and its result
    tasks_added              \* add_predecode_task calls made so far

fbState == <<max_frames, target_fps, min_predecoded_frames, frames,
             current_frame_index, total_frames_processed, dropped_frames,
             last_frame_timestamp, predecode_queue, frames_decoded, fb_ret,
             tasks_added>>

\* ChunkManager (chunk_manager.rs:41-54)
VARIABLES
    pending_chunks,          \* VecDeque<VideoChunk>, front first
    chunks_by_id,            \* HashMap<String, VideoChunk>
    chunks_by_sequence,      \* HashMap<u32, String>
    next_sequence,
    max_chunks,
    cm_stats,                \* ChunkManagerStats
    cm_ret                   \* the last ChunkManager call and its result

cmState == <<pending_chunks, chunks_by_id, chunks_by_sequence, next_sequence,
             max_chunks, cm_stats, cm_ret>>

\* PersistentCacheManager (persistent_cache.rs:18-29) and its directory
VARIABLES
    pc_config,               \* PersistentCacheConfig
    pc_chunks,               \* metadata.chunks of the running process
    pc_files,                \* the .chunk files of the cache directory
    pc_metadata_json,        \* metadata.json of the cache directory
    pc_backup,               \* the backup directory
    pc_current_cache_size,
    pc_stats,                \* PersistentCacheStats
    pc_parked,               \* the mutex the caller waits on for ever
    pc_ret,                  \* the last call and its result
    pc_stored,               \* what callers handed to store_chunk, by id
    pc_at_backup             \* what the cache held when backup_cache last
                             \* returned true

pcState == <<pc_config, pc_chunks, pc_files, pc_metadata_json, pc_backup,
             pc_current_cache_size, pc_stats, pc_parked, pc_ret, pc_stored,
             pc_at_backup>>

\* MemoryPool<T> (memory_safe.rs:13-17) and the threads that use it
VARIABLES
    pool,                    \* the number of boxes in the free list
    pool_max_size,
    allocations,
    pool_held,               \* boxes each thread has acquired and not released
    pool_ret                 \* the last MemoryPool call and its result

\* FrameBufferManager of the MemorySafetyGuard (memory_safe.rs:51-57,
\* 238-246) and the threads that use it
VARIABLES
    buffers,                 \* the number of buffers in the VecDeque
    memory_usage,            \* bytes
    fbm_config,              \* max_buffers, buffer_size, max_memory (bytes)
    fbm_threads,             \* each thread's place in get_buffer and its frames
    ms_ret                   \* the last guard call and its result

msState == <<pool, pool_max_size, allocations, pool_held, pool_ret,
             buffers, memory_usage, fbm_config, fbm_threads, ms_ret>>

\* VideoEngine (lib.rs:27-43): the running flag, the processing-loop
\* threads start has spawned, and the decoder calls made
VARIABLES
    is_running,
    loops,                   \* one record per spawned thread, oldest first
    decode_calls,            \* chunk ids handed to decode_chunk, in order
    eng_ret                  \* the last VideoEngine call and its result

engState == <<is_running, loops, decode_calls, eng_ret>>

\* the predecode thread of the FrameBuffer (frame_buffer.rs:59-61, 116-153)
VARIABLES
    stop_predecode,
    predecode_thread,        \* TRUE while the JoinHandle is held
    worker_pc,               \* the worker's place in its loop
    drop_pc                  \* the place of the thread that drops the buffer

workerState == <<stop_predecode, predecode_thread, worker_pc, drop_pc>>

restState == <<pcState, msState, engState, workerState>>

besidesPC == <<cacheState, fbState, cmState, msState, engState, workerState, now>>
besidesMS == <<cacheState, fbState, cmState, pcState, engState, workerState, now>>
besidesEngine == <<pcState, msState, workerState, now>>

vars == <<cacheState, fbState, cmState, restState, now>>

\* ---- bounds of the cache model ----
TickMs == 20 * 1000       \* the clock advances in steps of 20 s
MaxTicks == 1
EvictionTicks == 2       \* clock steps of the runs that compare scores
MaxAccessCount == 2      \* calls that bump access_count stop here
MaxMisses == 1           \* misses counted per run

BytesPerMB == 1048576
F32Den == 16777216       \* cleanup_threshold is an f32: thr_num / 2^24
Thr00 == 0               \* 0.0
Thr05 == 8388608         \* 0.5
Thr08 == 13421773        \* 0.8 as an f32
ExpirySeconds == 10
DefaultExpiry == 86400

\* chunk ids; the chunk c1 is a key frame, c2 and c3 are not
Keys == {"c1", "c2", "c3"}
KeyFrames == {"c1"}

\* vec![1, 2, 3, 4, 5], vec![255; 600000] and vec![255; 1024 * 1024].
\* No payload is empty: an empty one has compression_ratio 0/0.
BigLen == 600000
PayloadTest == FromBytes(<<1, 2, 3, 4, 5>>)
PayloadBig == <<Run(255, BigLen)>>
PayloadFull == <<Run(255, BytesPerMB)>>
\* The payloads callers store: with compression a cache of small files
\* needs data of a whole MB to exceed the budget, without it 600000 bytes
\* beside 600000 do.
Payloads ==
    IF config.enable_compression THEN {PayloadTest, PayloadFull}
    ELSE {PayloadTest, PayloadBig}

CacheConfig(mb, thr, expiry, compression, smart) ==
    [max_size_mb |-> mb, thr_num |-> thr, chunk_expiration |-> expiry,
     enable_compression |-> compression, enable_smart_eviction |-> smart]

\* 1 MB caches.  Without compression the files are as long as the payloads
\* and a threshold of 0.5 leaves cleanup something to keep; with it they
\* are a few bytes or KB, and only a threshold of 0.0 lies below them.
Configs ==
    {CacheConfig(1, Thr05, ExpirySeconds, FALSE, smart) : smart \in BOOLEAN}
    \cup {CacheConfig(1, Thr00, ExpirySeconds, TRUE, smart) : smart \in BOOLEAN}

\* A call record: returned is FALSE for a call that never returns; cleanup
\* tells whether the call entered cleanup_cache, pre is the metadata it
\* found there and plan its chunks_to_remove.
Call(op, key, returned, found, data, cleanup, pre, plan) ==
    [op |-> op, key |-> key, returned |-> returned, found |-> found,
     data |-> data, cleanup |-> cleanup, pre |-> pre, plan |-> plan]
NoCall == Call("none", "", TRUE, FALSE, <<>>, FALSE, <<>>, <<>>)
NewStats == [cache_hits |-> 0, cache_misses |-> 0,
             total_chunks_stored |-> 0, total_chunks_evicted |-> 0,
             total_bytes_stored |-> 0, total_bytes_evicted |-> 0]

\* with_config on an empty cache directory
CacheInitWith(cfgs) ==
    /\ config \in cfgs
    /\ chunks = <<>>
    /\ files = <<>>
    /\ current_cache_size = 0
    /\ stats = NewStats
    /\ parked = "none"
    /\ ret = NoCall
    /\ stored_data = <<>>

max_cache_size == config.max_size_mb * 1024 * 1024

\* (max_cache_size as f64 * cleanup_threshold as f64) as usize: the floor
\* of max_size_mb * 2^20 * thr_num / 2^24, which the f64 product holds exactly
target_size ==
    LET d == F32Den \div BytesPerMB
    IN  config.max_size_mb * (config.thr_num \div d)
        + (config.max_size_mb * (config.thr_num % d)) \div d

is_chunk_cached(chunk_id) == chunk_id \in DOMAIN chunks

Without(f, k) == [x \in DOMAIN f \ {k} |-> f[x]]
With(f, k, v) == [x \in DOMAIN f \cup {k} |-> IF x = k THEN v ELSE f[x]]

saturating_sub(a, b) == IF a > b THEN a - b ELSE 0

\* ---- calculate_eviction_score (cache_manager.rs:464-494) ----
\* score = tsa/1000*0.3 + age/1000*0.2 + 0.3/(access_count+1)
\*         - 10 [key frame] + 0.2/compression_ratio
\* The model keeps 10*score + 100 as the exact fraction ScoreNum/ScoreDen
\* (the f32 rounding of the code is not modelled); timestamps are whole
\* seconds, compression_ratio is data_len/file_len.
ScoreDen(c) == (c.access_count + 1) * c.data_len

ScoreNum(c) ==
    ( (3 * (now - c.last_accessed) + 2 * (now - c.created_at)) \div 1000
      + (IF c.is_key_frame THEN 0 ELSE 100) ) * ScoreDen(c)
    + 3 * c.data_len + 2 * c.file_len * (c.access_count + 1)

\* a/b < c/d for positive b, d, by continued fractions (no large products)
RECURSIVE FracLess(_, _, _, _)
FracLess(a, b, c, d) ==
    IF a \div b # c \div d THEN a \div b < c \div d
    ELSE IF c % d = 0 THEN FALSE
    ELSE IF a % b = 0 THEN TRUE
    ELSE FracLess(d, c % d, b, a % b)

ScoreLess(c1, c2) == FracLess(ScoreNum(c1), ScoreDen(c1), ScoreNum(c2), ScoreDen(c2))

Orders(S) == {o \in [1..Cardinality(S) -> S] : \A i, j \in DOMAIN o : i # j => o[i] # o[j]}

\* chunks.sort_by(score): ascending by score; the sort is stable over the
\* HashMap's iteration order, so entries of equal score come in any order
SortedByScore(m) ==
    {o \in Orders(DOMAIN m) :
        \A i, j \in DOMAIN o : i < j => ~ScoreLess(m[o[j]], m[o[i]])}

\* simple_cleanup: chunks.sort_by(created_at)
SortedByCreation(m) ==
    {o \in Orders(DOMAIN m) :
        \A i, j \in DOMAIN o : i < j => m[o[i]].created_at <= m[o[j]].created_at}

\* the loop that fills chunks_to_remove (cache_manager.rs:401-408)
RECURSIVE TakeVictims(_, _, _, _)
TakeVictims(m, order, i, size) ==
    IF i > Len(order) \/ size <= target_size THEN <<>>
    ELSE <<order[i]>> \o
         TakeVictims(m, order, i + 1, saturating_sub(size, m[order[i]].file_size))

\* an access that also restarts the entry's age
RestartsAge(m, chunk_id) ==
    IF chunk_id \in DOMAIN m
    THEN [m EXCEPT ![chunk_id].last_accessed = now,
                   ![chunk_id].created_at = now,
                   ![chunk_id].access_count = @ + 1]
    ELSE m

\* ---- update_access_time (cache_manager.rs:337-347) ----
update_access_time(m, chunk_id) ==
    IF chunk_id \in DOMAIN m
    THEN [m EXCEPT ![chunk_id].last_accessed = now,
                   ![chunk_id].access_count = @ + 1]
    ELSE m

\* ---- remove_chunk (cache_manager.rs:350-373) ----
\* Line 360, *size.lock() = size.lock().saturating_sub(..): the guard of
\* the right-hand side lives to the end of the statement, so the lock() of
\* the left-hand side waits on a mutex its own thread holds, and
\* parking_lot's Mutex is not reentrant.  remove_chunk of a chunk that is
\* present has by then taken the entry out of the metadata and deleted its
\* file; it never reaches the size and the eviction counters.
RemoveChunkParks(chunk_id) ==
    /\ chunks' = Without(chunks, chunk_id)
    /\ files' = Without(files, chunk_id)
    /\ parked' = "current_cache_size"
    /\ UNCHANGED <<current_cache_size, stats>>

\* ---- cleanup_cache / simple_cleanup (cache_manager.rs:376-461) ----
\* cleanup_cache holds the metadata guard from line 379 on.
\*   simple mode: simple_cleanup locks the metadata again (line 436);
\*   smart mode, nothing to remove: line 418 locks the metadata again;
\*   smart mode, otherwise: the guard is dropped and remove_chunk is called
\*   on the first chunk of chunks_to_remove.
\* In every case the caller ends parked on a mutex it holds.
CleanupCache(op, key) ==
    IF ~config.enable_smart_eviction
    THEN /\ parked' = "metadata"
         /\ ret' = Call(op, key, FALSE, FALSE, <<>>, TRUE, chunks, <<>>)
         /\ UNCHANGED <<chunks, files, current_cache_size, stats>>
    ELSE \E order \in SortedByScore(chunks) :
           LET plan == TakeVictims(chunks, order, 1, current_cache_size)
           IN  /\ ret' = Call(op, key, FALSE, FALSE, <<>>, TRUE, chunks, plan)
               /\ IF plan = <<>>
                  THEN /\ parked' = "metadata"
                       /\ UNCHANGED <<chunks, files, current_cache_size, stats>>
                  ELSE RemoveChunkParks(plan[1])

\* a size check that forgets the payload it is about to add
CleanupNeededSizeOnly(size, data) == size > max_cache_size

\* the size check of store_chunk (cache_manager.rs:181-182)
CleanupNeeded(size, data) == size + Size(data) > max_cache_size

\* ---- store_chunk (cache_manager.rs:169-249) ----
store_chunk(chunk_id, data, is_key_frame) ==
    /\ parked = "none"
    /\ IF is_chunk_cached(chunk_id)
       THEN /\ chunks' = update_access_time(chunks, chunk_id)
            /\ ret' = Call("store", chunk_id, TRUE, TRUE, <<>>, FALSE, <<>>, <<>>)
            /\ UNCHANGED <<files, current_cache_size, stats, parked, stored_data>>
       ELSE IF CleanupNeeded(current_cache_size, data)
       THEN /\ CleanupCache("store", chunk_id)
            /\ UNCHANGED stored_data
       ELSE LET compressed == IF config.enable_compression
                              THEN compress_data(data) ELSE data
                \* compression_ratio is data_len / file_len: 1.0 when
                \* compression is off
                entry == [file_size |-> Size(compressed),
                          created_at |-> now,
                          last_accessed |-> now,
                          access_count |-> 1,
                          is_key_frame |-> is_key_frame,
                          data_len |-> IF config.enable_compression
                                       THEN Size(data) ELSE 1,
                          file_len |-> IF config.enable_compression
                                       THEN Size(compressed) ELSE 1]
            IN  /\ files' = With(files, chunk_id, compressed)
                /\ chunks' = With(chunks, chunk_id, entry)
                /\ current_cache_size' = current_cache_size + Size(compressed)
                /\ stats' = [stats EXCEPT
                                !.total_chunks_stored = @ + 1,
                                !.total_bytes_stored = @ + Size(compressed)]
                /\ stored_data' = With(stored_data, chunk_id, data)
                /\ ret' = Call("store", chunk_id, TRUE, TRUE, <<>>, FALSE, <<>>, <<>>)
                /\ UNCHANGED parked
    /\ UNCHANGED config

\* the calls that bump an access_count stop at MaxAccessCount
AccessBounded(chunk_id) ==
    is_chunk_cached(chunk_id) => chunks[chunk_id].access_count < MaxAccessCount

StoreChunk(chunk_id, data, is_key_frame) ==
    /\ AccessBounded(chunk_id)
    /\ store_chunk(chunk_id, data, is_key_frame)
    /\ UNCHANGED <<now, fbState, cmState, restState>>

\* ---- get_chunk (cache_manager.rs:252-307) ----
\* The expired branch calls remove_chunk while get_chunk holds the metadata
\* guard of line 255: remove_chunk's lock of line 351 never returns.
get_chunk(chunk_id) ==
    /\ parked = "none"
    /\ IF is_chunk_cached(chunk_id)
       THEN IF now - chunks[chunk_id].created_at > config.chunk_expiration * 1000
            THEN /\ parked' = "metadata"
                 /\ ret' = Call("get", chunk_id, FALSE, FALSE, <<>>, FALSE, <<>>, <<>>)
                 /\ UNCHANGED <<chunks, stats>>
            ELSE LET compressed_data == files[chunk_id]
                     data == IF config.enable_compression
                             THEN decompress_data(compressed_data)
                             ELSE compressed_data
                 IN  /\ chunks' = update_access_time(chunks, chunk_id)
                     /\ stats' = [stats EXCEPT !.cache_hits = @ + 1]
                     /\ ret' = Call("get", chunk_id, TRUE, TRUE, data, FALSE, <<>>, <<>>)
                     /\ UNCHANGED parked
       ELSE /\ stats' = [stats EXCEPT !.cache_misses = @ + 1]
            /\ ret' = Call("get", chunk_id, TRUE, FALSE, <<>>, FALSE, <<>>, <<>>)
            /\ UNCHANGED <<chunks, parked>>
    /\ UNCHANGED <<config, files, current_cache_size, stored_data>>

\* hits stop at MaxAccessCount and misses at MaxMisses
GetBounded(chunk_id) ==
    IF ~is_chunk_cached(chunk_id) THEN stats.cache_misses < MaxMisses
    ELSE \/ now - chunks[chunk_id].created_at > config.chunk_expiration * 1000
         \/ chunks[chunk_id].access_count < MaxAccessCount

GetChunk(chunk_id) ==
    /\ GetBounded(chunk_id)
    /\ get_chunk(chunk_id)
    /\ UNCHANGED <<now, fbState, cmState, restState>>

\* ---- clear_cache (cache_manager.rs:608-624) ----
\* remove_chunk of the first id (HashMap order) never returns.
ClearCache ==
    /\ parked = "none"
    /\ IF DOMAIN chunks = {}
       THEN /\ current_cache_size' = 0
            /\ ret' = Call("clear", "", TRUE, FALSE, <<>>, FALSE, <<>>, <<>>)
            /\ UNCHANGED <<chunks, files, stats, parked>>
       ELSE /\ \E chunk_id \in DOMAIN chunks : RemoveChunkParks(chunk_id)
            /\ ret' = Call("clear", "", FALSE, FALSE, <<>>, FALSE, <<>>, <<>>)
    /\ UNCHANGED <<config, now, stored_data, fbState, cmState, restState>>

\* the clock: the process starts one step after the epoch
Tick ==
    /\ parked = "none"
    /\ now < (MaxTicks + 1) * TickMs
    /\ now' = now + TickMs
    /\ UNCHANGED <<cacheState, fbState, cmState, restState>>

\* the same clock, let run one step further
LongTick ==
    /\ parked = "none"
    /\ now < (EvictionTicks + 1) * TickMs
    /\ now' = now + TickMs
    /\ UNCHANGED <<cacheState, fbState, cmState, restState>>

(***************************************************************************)
(* FrameBuffer (frame_buffer.rs)                                           *)
(***************************************************************************)
FrameIntervalUs == 16667     \* timestamps of successive frames
StaleMs == 1000              \* optimize_memory's window
MaxDecoded == 4              \* frames the decoder hands out per run
TestPushCount == 15          \* frames test_predecoded_frames pushes

FBConfig(cap, fps, min_pre) ==
    [max_frames |-> cap, target_fps |-> fps, min_predecoded_frames |-> min_pre]

\* with_capacity_and_predecode(2, 4, 1), (3, 5, 0), and the (20, 60, 10)
\* of the tests
FBConfigs == {FBConfig(2, 4, 1), FBConfig(3, 5, 0), FBConfig(20, 60, 10)}

NoFrame == 0 - 1
FBCall(op, ok, frame) == [op |-> op, ok |-> ok, frame |-> frame]

\* with_capacity_and_predecode (frame_buffer.rs:71-100)
FBInitWith(cfgs) ==
    \E c \in cfgs :
        /\ max_frames = c.max_frames
        /\ target_fps = c.target_fps
        /\ min_predecoded_frames = c.min_predecoded_frames
        /\ frames = <<>>
        /\ current_frame_index = 0
        /\ total_frames_processed = 0
        /\ dropped_frames = 0
        /\ last_frame_timestamp = 0
        /\ predecode_queue = <<>>
        /\ frames_decoded = 0
        /\ fb_ret = FBCall("new", TRUE, NoFrame)
        /\ tasks_added = 0

BufferedFrame(timestamp, index, added, consumed, predecoded) ==
    [timestamp |-> timestamp, buffer_index |-> index,
     added_timestamp |-> added, is_consumed |-> consumed,
     is_predecoded |-> predecoded]

get_frame_count == Len(frames)

get_predecoded_frame_count ==
    Cardinality({i \in DOMAIN frames : frames[i].is_predecoded})

has_sufficient_predecoded_frames ==
    get_predecoded_frame_count >= min_predecoded_frames

\* a readiness that looks at the buffered count alone
ReadyOnCountAlone == Len(frames) >= target_fps \div 2

\* frame_buffer.rs:339-342; target_fps / 2 is a u32 division
is_ready_for_playback ==
    /\ Len(frames) >= target_fps \div 2
    /\ has_sufficient_predecoded_frames

\* a capacity check that lets one frame too many in
BufferOverFull(len) == len > max_frames

\* the capacity check of add_frame (frame_buffer.rs:215)
BufferFull(len) == len >= max_frames

\* a drop_oldest_frame that counts every frame it pops
CountsEveryDrop(frame) == TRUE

\* whether drop_oldest_frame counts the frame it pops (frame_buffer.rs:326)
CountsAsDropped(frame) == ~frame.is_consumed

\* ---- add_frame (frame_buffer.rs:211-237), drop_oldest_frame (324-336) ----
add_frame ==
    /\ frames_decoded' = frames_decoded + 1
    /\ LET timestamp == frames_decoded * FrameIntervalUs
           full == BufferFull(Len(frames))
       IN  IF full /\ frames = <<>>
           THEN \* drop_oldest_frame: Err("No frames to drop")
                /\ fb_ret' = FBCall("add_frame", FALSE, timestamp)
                /\ UNCHANGED <<frames, current_frame_index,
                               total_frames_processed, dropped_frames,
                               last_frame_timestamp>>
           ELSE /\ frames' = Append(IF full THEN Tail(frames) ELSE frames,
                                    BufferedFrame(timestamp, current_frame_index,
                                                  now, FALSE, FALSE))
                /\ dropped_frames' =
                       IF full /\ CountsAsDropped(Head(frames))
                       THEN dropped_frames + 1 ELSE dropped_frames
                /\ current_frame_index' = (current_frame_index + 1) % max_frames
                /\ total_frames_processed' = total_frames_processed + 1
                /\ last_frame_timestamp' = timestamp
                /\ fb_ret' = FBCall("add_frame", TRUE, timestamp)
    /\ UNCHANGED <<max_frames, target_fps, min_predecoded_frames,
                   predecode_queue, tasks_added>>

AddFrame ==
    /\ frames_decoded < MaxDecoded
    /\ add_frame
    /\ UNCHANGED <<cacheState, cmState, restState, now>>

\* a scan that stops at the front frame whatever its flag
StopsAtFront(fs) == fs

\* the frames left when the while loop of get_next_frame stops
\* (frame_buffer.rs:242-251): consumed frames at the front are popped
RECURSIVE SkipConsumed(_)
SkipConsumed(fs) ==
    IF fs = <<>> THEN <<>>
    ELSE IF ~Head(fs).is_consumed THEN fs
    ELSE SkipConsumed(Tail(fs))

\* ---- get_next_frame (frame_buffer.rs:240-255) ----
GetNextFrame ==
    /\ LET rest == SkipConsumed(frames)
       IN  IF rest = <<>>
           THEN /\ frames' = <<>>
                /\ fb_ret' = FBCall("get_next_frame", FALSE, NoFrame)
           ELSE /\ frames' = [rest EXCEPT ![1].is_consumed = TRUE]
                /\ fb_ret' = FBCall("get_next_frame", TRUE, rest[1].timestamp)
    /\ UNCHANGED <<max_frames, target_fps, min_predecoded_frames,
                   current_frame_index, total_frames_processed, dropped_frames,
                   last_frame_timestamp, predecode_queue, frames_decoded,
                   cacheState, cmState, restState, tasks_added, now>>

\* ---- get_current_frame (frame_buffer.rs:258-267) ----
GetCurrentFrame ==
    /\ fb_ret' = IF frames = <<>>
                 THEN FBCall("get_current_frame", FALSE, NoFrame)
                 ELSE FBCall("get_current_frame", TRUE, frames[Len(frames)].timestamp)
    /\ UNCHANGED <<max_frames, target_fps, min_predecoded_frames, frames,
                   current_frame_index, total_frames_processed, dropped_frames,
                   last_frame_timestamp, predecode_queue, frames_decoded,
                   cacheState, cmState, restState, tasks_added, now>>

\* ---- optimize_memory (frame_buffer.rs:371-396) ----
Stale(frame) == frame.is_consumed /\ now - frame.added_timestamp > StaleMs
Kept(frame) == ~Stale(frame)

OptimizeMemory ==
    /\ frames' = SelectSeq(frames, Kept)
    /\ fb_ret' = FBCall("optimize_memory", TRUE, NoFrame)
    /\ UNCHANGED <<max_frames, target_fps, min_predecoded_frames,
                   current_frame_index, total_frames_processed, dropped_frames,
                   last_frame_timestamp, predecode_queue, frames_decoded,
                   cacheState, cmState, restState, tasks_added, now>>

\* ---- clear (frame_buffer.rs:310-321) ----
ClearFrames ==
    /\ frames' = <<>>
    /\ current_frame_index' = 0
    /\ total_frames_processed' = 0
    /\ dropped_frames' = 0
    /\ last_frame_timestamp' = 0
    /\ predecode_queue' = <<>>
    /\ fb_ret' = FBCall("clear", TRUE, NoFrame)
    /\ UNCHANGED <<max_frames, target_fps, min_predecoded_frames,
                   frames_decoded, cacheState, cmState, restState, tasks_added, now>>

\* ---- has_sufficient_predecoded_frames (frame_buffer.rs:290-292) ----
HasSufficientPredecodedFrames ==
    /\ fb_ret' = FBCall("has_sufficient_predecoded_frames",
                        has_sufficient_predecoded_frames, NoFrame)
    /\ UNCHANGED <<max_frames, target_fps, min_predecoded_frames, frames,
                   current_frame_index, total_frames_processed, dropped_frames,
                   last_frame_timestamp, predecode_queue, frames_decoded,
                   cacheState, cmState, restState, tasks_added, now>>

\* ---- is_ready_for_playback (frame_buffer.rs:339-342) ----
IsReadyForPlayback ==
    /\ fb_ret' = FBCall("is_ready_for_playback", is_ready_for_playback, NoFrame)
    /\ UNCHANGED <<max_frames, target_fps, min_predecoded_frames, frames,
                   current_frame_index, total_frames_processed, dropped_frames,
                   last_frame_timestamp, predecode_queue, frames_decoded,
                   cacheState, cmState, restState, tasks_added, now>>

\* ---- the tests' own way to fill the ring (frame_buffer.rs:516-526) ----
\* test_predecoded_frames and test_insufficient_predecoded_frames write
\* predecoded frames into `frames` of a new buffer: frame i has
\* buffer_index i, timestamp i * 16667 and added_timestamp 0.
TestPushPredecoded ==
    /\ fb_ret.op \in {"new", "test_push"}
    /\ Len(frames) < TestPushCount
    /\ Len(frames) < max_frames
    /\ frames' = Append(frames,
                        BufferedFrame(Len(frames) * FrameIntervalUs, Len(frames),
                                      0, FALSE, TRUE))
    /\ fb_ret' = FBCall("test_push", TRUE, Len(frames) * FrameIntervalUs)
    /\ UNCHANGED <<max_frames, target_fps, min_predecoded_frames,
                   current_frame_index, total_frames_processed, dropped_frames,
                   last_frame_timestamp, predecode_queue, frames_decoded,
                   cacheState, cmState, restState, tasks_added, now>>

(***************************************************************************)
(* The predecode queue (frame_buffer.rs)                                   *)
(***************************************************************************)
MaxTasks == 5

\* PredecodePriority (frame_buffer.rs:57-62)
PredecodePriority == {"High", "Medium", "Low"}

\* PredecodeTask (frame_buffer.rs:49-55); the caller of the k-th
\* add_predecode_task passes k as the chunk id
PredecodeTask(chunk_id, priority, timestamp) ==
    [chunk_id |-> chunk_id, priority |-> priority, timestamp |-> timestamp]

\* VecDeque::insert(pos, task) with pos counted from 0
InsertAt(q, pos, task) ==
    SubSeq(q, 1, pos) \o <<task>> \o SubSeq(q, pos + 1, Len(q))

\* a Medium task placed at the head, as a High task is
MediumAtHead(q) == 0

\* the position add_predecode_task gives a Medium task
\* (frame_buffer.rs:192-202): the index of the first Low task, or the
\* length of the queue when it holds none
MediumPos(q) ==
    LET lows == {i \in DOMAIN q : q[i].priority = "Low"}
    IN  IF lows = {} THEN Len(q)
        ELSE (CHOOSE i \in lows : \A j \in lows : i <= j) - 1

\* the match of add_predecode_task (frame_buffer.rs:190-205)
Enqueue(q, task) ==
    CASE task.priority = "High"   -> <<task>> \o q
      [] task.priority = "Medium" -> InsertAt(q, MediumPos(q), task)
      [] task.priority = "Low"    -> Append(q, task)

\* ---- add_predecode_task (frame_buffer.rs:176-208) ----
AddPredecodeTask ==
    /\ tasks_added < MaxTasks
    /\ \E priority \in PredecodePriority :
          predecode_queue' =
              Enqueue(predecode_queue,
                      PredecodeTask(tasks_added + 1, priority, now))
    /\ tasks_added' = tasks_added + 1
    /\ fb_ret' = FBCall("add_predecode_task", TRUE, NoFrame)
    /\ UNCHANGED <<max_frames, target_fps, min_predecoded_frames, frames,
                   current_frame_index, total_frames_processed, dropped_frames,
                   last_frame_timestamp, frames_decoded, cacheState, cmState, restState,
                   now>>

\* where the worker goes from its test of the stop flag
\* (frame_buffer.rs:124-127): out of the loop when the flag is set
AfterStopCheck(stop) == IF stop THEN "exited" ELSE "take"

\* ---- predecode_worker: the test of the stop flag ----
\* (frame_buffer.rs:122-127), under the flag's lock
WorkerCheckStop ==
    /\ worker_pc = "check"
    /\ worker_pc' = AfterStopCheck(stop_predecode)
    /\ UNCHANGED <<fbState, stop_predecode, predecode_thread, drop_pc,
                   cacheState, cmState, pcState, msState, engState, now>>

\* ---- predecode_worker: the rest of one turn ----
\* (frame_buffer.rs:129-151): pop_front under the queue's lock; the frames
\* made from a task are only logged; then a sleep of 1 ms, or of 10 ms
\* when the queue was empty, and back to the test
PredecodeWorker ==
    /\ worker_pc = "take"
    /\ predecode_queue' = IF predecode_queue # <<>>
                          THEN Tail(predecode_queue) ELSE predecode_queue
    /\ worker_pc' = "check"
    /\ UNCHANGED <<max_frames, target_fps, min_predecoded_frames, frames,
                   current_frame_index, total_frames_processed, dropped_frames,
                   last_frame_timestamp, frames_decoded, fb_ret, cacheState,
                   cmState, pcState, msState, engState, stop_predecode,
                   predecode_thread, drop_pc, tasks_added, now>>

(***************************************************************************)
(* The chunk manager (chunk_manager.rs)                                    *)
(***************************************************************************)
MaxAdds == 2                 \* VideoChunk::new calls per run
LoopAdds == 5                \* the same, in the runs that reach a reclaim
MaxRetry == 4                \* mark_failed calls a chunk takes per run
MaxProcessed == 1            \* mark_processed calls counted per run
LoopProcessed == 2           \* the same, in the runs that reach a reclaim

RetryCeiling == 3
DefaultCapacity == 100

\* the ids callers pass to add_chunk, and the strings Uuid::new_v4 returns:
\* the n-th call of a run returns Uuids[n], no caller id among them
CallerIds == {"test1", "test2"}
Uuids == <<"uuid0", "uuid1", "uuid2", "uuid3", "uuid4", "uuid5", "uuid6",
           "uuid7">>

\* payloads of one length (the first is the tests'), so that the average
\* chunk size is a whole number, in f64 as here
TestData == <<1, 2, 3, 4, 5>>
CMPayloads == {TestData, <<5, 4, 3, 2, 1>>}

\* VideoChunk::new (chunk_manager.rs:25-37); next_sequence counts the
\* chunks made so far, as clear does not reset it
VideoChunk(data, sequence_number) ==
    [id |-> Uuids[sequence_number + 1], data |-> data, timestamp |-> now,
     sequence_number |-> sequence_number, is_processed |-> FALSE,
     retry_count |-> 0]

\* ChunkManagerStats::default (chunk_manager.rs:56-63)
CMStatsDefault ==
    [total_chunks |-> 0, processed_chunks |-> 0, failed_chunks |-> 0,
     current_pending |-> 0, average_chunk_size |-> 0]

\* a call and its result: found tells Some from None, id and data are those
\* of the chunk a Some holds
CMCall(op, chunk_id, ok, found, id, data) ==
    [op |-> op, chunk_id |-> chunk_id, ok |-> ok, found |-> found, id |-> id,
     data |-> data]

\* with_capacity (chunk_manager.rs:72-83)
CMInitWith(caps) ==
    \E cap \in caps :
        /\ pending_chunks = <<>>
        /\ chunks_by_id = [x \in {} |-> 0]
        /\ chunks_by_sequence = [x \in {} |-> 0]
        /\ next_sequence = 0
        /\ max_chunks = cap
        /\ cm_stats = CMStatsDefault
        /\ cm_ret = CMCall("new", "", TRUE, FALSE, "", <<>>)

\* ChunkManager::new (chunk_manager.rs:67-69)
CMIdle == CMInitWith({DefaultCapacity})

get_pending_count == Len(pending_chunks)

Restrict(f, S) == [x \in S |-> f[x]]

ProcessedIds(by_id) == {id \in DOMAIN by_id : by_id[id].is_processed}

\* the to_remove lists cleanup_old_chunks can collect (chunk_manager.rs:
\* 203-209): processed ids in the HashMap's iteration order, which is any
\* order, until max_chunks / 4 of them are taken
ToRemove(by_id, cap) ==
    LET processed == ProcessedIds(by_id)
        limit == cap \div 4
        n == IF Cardinality(processed) < limit THEN Cardinality(processed)
             ELSE limit
    IN  {R \in SUBSET processed : Cardinality(R) = n}

\* update_average_chunk_size (chunk_manager.rs:224-227)
update_average_chunk_size(st, chunk_size) ==
    [st EXCEPT !.average_chunk_size =
        (st.average_chunk_size * (st.total_chunks - 1) + chunk_size)
            \div st.total_chunks]

\* a sequence number taken from the number of chunks tracked
SequenceFromTracked(by_id) == Cardinality(DOMAIN by_id)

\* the sequence number add_chunk gives the chunk (chunk_manager.rs:94),
\* whatever cleanup_old_chunks has left in chunks_by_id
NewSequence(by_id) == next_sequence

\* a reclaim that leaves the queue as it is
RetainsAll(q, R) == q

\* pending_chunks.retain(|c| c.id != chunk.id) for the chunks of R
\* (chunk_manager.rs:215)
Retain(q, R) == SelectSeq(q, LAMBDA c : c.id \notin R)

\* ---- add_chunk, with cleanup_old_chunks (chunk_manager.rs:86-109, ----
\* ---- 199-221) ----
\* chunk_id is only logged.
add_chunk(chunk_id, data) ==
    /\ \E R \in (IF Cardinality(DOMAIN chunks_by_id) >= max_chunks
                 THEN ToRemove(chunks_by_id, max_chunks) ELSE {{}}) :
          LET gone == {chunks_by_id[id].sequence_number : id \in R}
              by_id == Restrict(chunks_by_id, DOMAIN chunks_by_id \ R)
              by_seq == Restrict(chunks_by_sequence,
                                 DOMAIN chunks_by_sequence \ gone)
              pending == Retain(pending_chunks, R)
              chunk == VideoChunk(data, NewSequence(by_id))
          IN  /\ chunks_by_id' = With(by_id, chunk.id, chunk)
              /\ chunks_by_sequence' =
                     With(by_seq, chunk.sequence_number, chunk.id)
              /\ pending_chunks' = Append(pending, chunk)
              /\ cm_stats' =
                     update_average_chunk_size(
                         [cm_stats EXCEPT
                             !.total_chunks = @ + 1,
                             !.current_pending = Len(pending) + 1],
                         Len(data))
    /\ next_sequence' = next_sequence + 1
    /\ cm_ret' = CMCall("add_chunk", chunk_id, TRUE, FALSE, "", data)
    /\ UNCHANGED max_chunks

AddChunk(chunk_id, data) ==
    /\ add_chunk(chunk_id, data)
    /\ UNCHANGED <<cacheState, fbState, restState, now>>

\* the chunks at the front of the queue that get_next_chunk pops: those
\* ahead of the first whose queued copy is not processed
RECURSIVE ProcessedPrefix(_)
ProcessedPrefix(q) ==
    IF q # <<>> /\ Head(q).is_processed
    THEN 1 + ProcessedPrefix(Tail(q))
    ELSE 0

\* a get_next_chunk that takes the chunk it returns off the queue
PopsReturned(q) == Tail(q)

\* what get_next_chunk leaves of a queue whose front it returns
\* (chunk_manager.rs:114-118)
KeepsReturned(q) == q

\* ---- get_next_chunk (chunk_manager.rs:112-129) ----
get_next_chunk ==
    LET n == ProcessedPrefix(pending_chunks)
        popped == SubSeq(pending_chunks, 1, n)
        rest == SubSeq(pending_chunks, n + 1, Len(pending_chunks))
        ids == {popped[i].id : i \in DOMAIN popped}
        seqs == {popped[i].sequence_number : i \in DOMAIN popped}
    IN  /\ chunks_by_id' = Restrict(chunks_by_id, DOMAIN chunks_by_id \ ids)
        /\ chunks_by_sequence' =
               Restrict(chunks_by_sequence, DOMAIN chunks_by_sequence \ seqs)
        /\ cm_stats' = IF n > 0
                       THEN [cm_stats EXCEPT !.current_pending = Len(rest)]
                       ELSE cm_stats
        /\ IF rest # <<>>
           THEN /\ pending_chunks' = KeepsReturned(rest)
                /\ cm_ret' = CMCall("get_next_chunk", "", TRUE, TRUE,
                                    Head(rest).id, Head(rest).data)
           ELSE /\ pending_chunks' = rest
                /\ cm_ret' = CMCall("get_next_chunk", "", TRUE, FALSE, "", <<>>)
        /\ UNCHANGED <<next_sequence, max_chunks>>

GetNextChunk ==
    /\ get_next_chunk
    /\ UNCHANGED <<cacheState, fbState, restState, now>>

\* ---- mark_processed (chunk_manager.rs:132-138) ----
mark_processed(chunk_id) ==
    /\ IF chunk_id \in DOMAIN chunks_by_id
       THEN /\ chunks_by_id' =
                   [chunks_by_id EXCEPT ![chunk_id].is_processed = TRUE]
            /\ cm_stats' = [cm_stats EXCEPT !.processed_chunks = @ + 1]
       ELSE UNCHANGED <<chunks_by_id, cm_stats>>
    /\ cm_ret' = CMCall("mark_processed", chunk_id, TRUE, FALSE, "", <<>>)
    /\ UNCHANGED <<pending_chunks, chunks_by_sequence, next_sequence,
                   max_chunks>>

MarkProcessed(chunk_id) ==
    /\ mark_processed(chunk_id)
    /\ UNCHANGED <<cacheState, fbState, restState, now>>

\* a ceiling that lets the third failure be retried
RetriesLeftAtCeiling(retry, retry_count) ==
    retry /\ retry_count <= RetryCeiling

\* a test that retries whatever the caller asks
RetriesWhateverAsked(retry, retry_count) == retry_count < RetryCeiling

\* the test of mark_failed (chunk_manager.rs:145)
RetriesLeft(retry, retry_count) == retry /\ retry_count < RetryCeiling

\* ---- mark_failed (chunk_manager.rs:141-158) ----
MarkFailed(chunk_id, retry) ==
    /\ chunk_id \in DOMAIN chunks_by_id
          => chunks_by_id[chunk_id].retry_count < MaxRetry
    /\ IF chunk_id \in DOMAIN chunks_by_id
       THEN LET retry_count == chunks_by_id[chunk_id].retry_count + 1
            IN  IF RetriesLeft(retry, retry_count)
                THEN /\ chunks_by_id' =
                            [chunks_by_id EXCEPT
                                ![chunk_id].retry_count = retry_count]
                     /\ UNCHANGED cm_stats
                ELSE /\ chunks_by_id' =
                            [chunks_by_id EXCEPT
                                ![chunk_id].retry_count = retry_count,
                                ![chunk_id].is_processed = TRUE]
                     /\ cm_stats' =
                            [cm_stats EXCEPT !.failed_chunks = @ + 1]
       ELSE UNCHANGED <<chunks_by_id, cm_stats>>
    /\ cm_ret' = CMCall("mark_failed", chunk_id, TRUE, FALSE, "", <<>>)
    /\ UNCHANGED <<pending_chunks, chunks_by_sequence, next_sequence,
                   max_chunks, cacheState, fbState, restState, now>>

\* ---- get_chunk (chunk_manager.rs:161-163) ----
GetChunkById(chunk_id) ==
    /\ cm_ret' = IF chunk_id \in DOMAIN chunks_by_id
                 THEN CMCall("get_chunk", chunk_id, TRUE, TRUE,
                             chunks_by_id[chunk_id].id,
                             chunks_by_id[chunk_id].data)
                 ELSE CMCall("get_chunk", chunk_id, TRUE, FALSE, "", <<>>)
    /\ UNCHANGED <<pending_chunks, chunks_by_id, chunks_by_sequence,
                   next_sequence, max_chunks, cm_stats, cacheState, fbState, restState,
                   now>>

\* ---- clear (chunk_manager.rs:190-196) ----
ClearChunks ==
    /\ pending_chunks' = <<>>
    /\ chunks_by_id' = [x \in {} |-> 0]
    /\ chunks_by_sequence' = [x \in {} |-> 0]
    /\ cm_stats' = CMStatsDefault
    /\ cm_ret' = CMCall("clear", "", TRUE, FALSE, "", <<>>)
    /\ UNCHANGED <<next_sequence, max_chunks, cacheState, fbState, restState, now>>

(***************************************************************************)
(* PersistentCacheManager (persistent_cache.rs)                            *)
(*                                                                         *)
(* The manager keeps metadata.chunks in memory and three things on disk:   *)
(* one .chunk file per chunk (its name is the SHA-256 of the chunk id, so  *)
(* the files are keyed by chunk id here), metadata.json, and the backup    *)
(* directory.  A call is one action; a process that is killed loses the    *)
(* memory and keeps the disk.                                              *)
(***************************************************************************)
MaxBackups == 2          \* backups counted per process
MaxRestores == 1         \* restores counted per process

PCConfig(mb, thr, expiry, compression, smart, integrity, backup) ==
    [max_size_mb |-> mb, max_chunks |-> 1000, thr_num |-> thr,
     chunk_expiration |-> expiry, enable_compression |-> compression,
     enable_smart_eviction |-> smart, enable_integrity_check |-> integrity,
     enable_backup |-> backup]

\* PersistentCacheConfig::default() (persistent_cache.rs:123-136)
PCDefaultConfig == PCConfig(500, Thr08, DefaultExpiry, TRUE, TRUE, TRUE, TRUE)

\* A call record: returned is FALSE for a call that never returns, error is
\* TRUE for Err(_), value is the bool of Ok(bool) or whether Ok(Some(_)).
PCCall(op, key, returned, error, value, data) ==
    [op |-> op, key |-> key, returned |-> returned, error |-> error,
     value |-> value, data |-> data]
PCNoCall == PCCall("none", "", TRUE, FALSE, FALSE, <<>>)

PCNewStats == [cache_hits |-> 0, cache_misses |-> 0,
               total_chunks_stored |-> 0, total_chunks_evicted |-> 0,
               total_bytes_stored |-> 0, total_bytes_evicted |-> 0,
               integrity_failures |-> 0, backup_operations |-> 0,
               restore_operations |-> 0]

\* metadata.json: absent, whole (the chunks it lists) or cut short by a
\* kill in the middle of fs::write
NoMetadataJson == [exists |-> FALSE, corrupt |-> FALSE, chunks |-> <<>>]
MetadataJson(m) == [exists |-> TRUE, corrupt |-> FALSE, chunks |-> m]
CutMetadataJson == [exists |-> TRUE, corrupt |-> TRUE, chunks |-> <<>>]

NoBackup == [exists |-> FALSE, metadata_json |-> NoMetadataJson, files |-> <<>>]

\* with_config on a directory that holds nothing yet
PCInitWith(cfgs) ==
    /\ pc_config \in cfgs
    /\ pc_chunks = <<>>
    /\ pc_files = <<>>
    /\ pc_metadata_json = NoMetadataJson
    /\ pc_backup = NoBackup
    /\ pc_current_cache_size = 0
    /\ pc_stats = PCNewStats
    /\ pc_parked = "none"
    /\ pc_ret = PCNoCall
    /\ pc_stored = <<>>
    /\ pc_at_backup = [taken |-> FALSE, data |-> <<>>]

pc_max_cache_size == pc_config.max_size_mb * 1024 * 1024

\* (max_cache_size as f64 * cleanup_threshold as f64) as usize
pc_target_size ==
    LET d == F32Den \div BytesPerMB
    IN  pc_config.max_size_mb * (pc_config.thr_num \div d)
        + (pc_config.max_size_mb * (pc_config.thr_num % d)) \div d

pc_is_chunk_cached(chunk_id) == chunk_id \in DOMAIN pc_chunks

\* SHA-256 of the file's bytes, printed in hex: equal digests are taken to
\* mean equal bytes
calculate_data_hash(data) == <<"sha256", data>>

pc_compress_data(data) == compress_data(data)
pc_decompress_data(compressed) == decompress_data(compressed)

pc_update_access_time(m, chunk_id) ==
    IF chunk_id \in DOMAIN m
    THEN [m EXCEPT ![chunk_id].last_accessed = now,
                   ![chunk_id].access_count = @ + 1]
    ELSE m

\* ---- remove_chunk (persistent_cache.rs:426-449) ----
\* Called by a thread that holds the metadata guard, the lock of line 427
\* never returns.  Called without it, the entry leaves the metadata and the
\* file is deleted, and then line 436 locks current_cache_size twice in one
\* statement.  metadata.json is not written in either case.
PCRemoveChunkParks(chunk_id) ==
    /\ pc_chunks' = Without(pc_chunks, chunk_id)
    /\ pc_files' = Without(pc_files, chunk_id)
    /\ pc_parked' = "current_cache_size"
    /\ UNCHANGED <<pc_current_cache_size, pc_stats, pc_metadata_json>>

RECURSIVE PCTakeVictims(_, _, _, _)
PCTakeVictims(m, order, i, size) ==
    IF i > Len(order) \/ size <= pc_target_size THEN <<>>
    ELSE <<order[i]>> \o
         PCTakeVictims(m, order, i + 1, saturating_sub(size, m[order[i]].file_size))

\* ---- cleanup_cache / simple_cleanup (persistent_cache.rs:452-537) ----
\* cleanup_cache holds the metadata guard from line 455 on: simple_cleanup
\* locks it again (512), and so does line 494 when nothing is to be
\* removed; otherwise the guard is dropped and remove_chunk parks on the
\* first chunk of chunks_to_remove.  save_metadata (501) is never reached.
PCCleanupCache ==
    IF ~pc_config.enable_smart_eviction
    THEN /\ pc_parked' = "metadata"
         /\ UNCHANGED <<pc_chunks, pc_files, pc_current_cache_size, pc_stats,
                        pc_metadata_json>>
    ELSE \E order \in SortedByScore(pc_chunks) :
           LET plan == PCTakeVictims(pc_chunks, order, 1, pc_current_cache_size)
           IN  IF plan = <<>>
               THEN /\ pc_parked' = "metadata"
                    /\ UNCHANGED <<pc_chunks, pc_files, pc_current_cache_size,
                                   pc_stats, pc_metadata_json>>
               ELSE PCRemoveChunkParks(plan[1])

\* the metadata entry store_chunk inserts (persistent_cache.rs:262-281)
PCEntry(data, compressed, is_key_frame) ==
    [file_size |-> Size(compressed),
     file_hash |-> calculate_data_hash(compressed),
     created_at |-> now,
     last_accessed |-> now,
     expires_at |-> now + pc_config.chunk_expiration * 1000,
     access_count |-> 1,
     is_key_frame |-> is_key_frame,
     data_len |-> IF pc_config.enable_compression THEN Size(data) ELSE 1,
     file_len |-> IF pc_config.enable_compression THEN Size(compressed) ELSE 1]

\* the outcomes of fs::write of the payload (line 251): written, failed
\* before the file was created, or failed after, leaving an empty file
WriteOutcomes == {"ok", "not_created", "created_empty"}

\* ---- store_chunk (persistent_cache.rs:216-307) ----
\* save_ok tells whether the fs::write of metadata.json (642) succeeds.
PCStoreChunk(chunk_id, data, is_key_frame, write, save_ok) ==
    /\ pc_parked = "none"
    /\ IF pc_is_chunk_cached(chunk_id)
       THEN /\ pc_chunks[chunk_id].access_count < MaxAccessCount
            /\ pc_chunks' = pc_update_access_time(pc_chunks, chunk_id)
            /\ pc_ret' = PCCall("store", chunk_id, TRUE, FALSE, TRUE, <<>>)
            /\ UNCHANGED <<pc_files, pc_metadata_json, pc_current_cache_size,
                           pc_stats, pc_parked, pc_stored>>
       ELSE IF pc_current_cache_size + Size(data) > pc_max_cache_size
       THEN /\ PCCleanupCache
            /\ pc_ret' = PCCall("store", chunk_id, FALSE, FALSE, FALSE, <<>>)
            /\ UNCHANGED pc_stored
       ELSE LET compressed == IF pc_config.enable_compression
                              THEN pc_compress_data(data) ELSE data
                entry == PCEntry(data, compressed, is_key_frame)
                published == With(pc_chunks, chunk_id, entry)
            IN  IF write # "ok"
                THEN /\ pc_files' = IF write = "created_empty"
                                    THEN With(pc_files, chunk_id, <<>>)
                                    ELSE pc_files
                     /\ pc_ret' = PCCall("store", chunk_id, TRUE, TRUE, FALSE, <<>>)
                     /\ UNCHANGED <<pc_chunks, pc_metadata_json,
                                    pc_current_cache_size, pc_stats, pc_parked,
                                    pc_stored>>
                ELSE /\ pc_files' = With(pc_files, chunk_id, compressed)
                     /\ pc_chunks' = published
                     /\ pc_current_cache_size' =
                            pc_current_cache_size + Size(compressed)
                     /\ pc_stats' = [pc_stats EXCEPT
                                        !.total_chunks_stored = @ + 1,
                                        !.total_bytes_stored = @ + Size(compressed)]
                     /\ pc_stored' = With(pc_stored, chunk_id, data)
                     /\ IF save_ok
                        THEN /\ pc_metadata_json' = MetadataJson(published)
                             /\ pc_ret' = PCCall("store", chunk_id, TRUE, FALSE,
                                                 TRUE, <<>>)
                        ELSE /\ UNCHANGED pc_metadata_json
                             /\ pc_ret' = PCCall("store", chunk_id, TRUE, TRUE,
                                                 FALSE, <<>>)
                     /\ UNCHANGED pc_parked
    /\ UNCHANGED <<pc_config, pc_backup, pc_at_backup, besidesPC>>

\* ---- get_chunk (persistent_cache.rs:310-383) ----
\* The metadata guard of line 313 is held until line 360.  The three
\* branches that find the entry unfit (expired, file gone, digest differs)
\* call remove_chunk under it.
PCGetChunk(chunk_id) ==
    /\ pc_parked = "none"
    /\ IF pc_is_chunk_cached(chunk_id)
       THEN LET chunk_metadata == pc_chunks[chunk_id]
            IN  IF now > chunk_metadata.expires_at
                   \/ ~(chunk_id \in DOMAIN pc_files)
                THEN /\ pc_parked' = "metadata"
                     /\ pc_ret' = PCCall("get", chunk_id, FALSE, FALSE, FALSE, <<>>)
                     /\ UNCHANGED <<pc_chunks, pc_stats>>
                ELSE LET compressed_data == pc_files[chunk_id]
                     IN  IF /\ pc_config.enable_integrity_check
                            /\ calculate_data_hash(compressed_data)
                                   # chunk_metadata.file_hash
                         THEN /\ pc_stats' = [pc_stats EXCEPT
                                                 !.integrity_failures = @ + 1]
                              /\ pc_parked' = "metadata"
                              /\ pc_ret' = PCCall("get", chunk_id, FALSE, FALSE,
                                                  FALSE, <<>>)
                              /\ UNCHANGED pc_chunks
                         ELSE /\ chunk_metadata.access_count < MaxAccessCount
                              /\ pc_chunks' = pc_update_access_time(pc_chunks, chunk_id)
                              /\ pc_stats' = [pc_stats EXCEPT !.cache_hits = @ + 1]
                              /\ pc_ret' = PCCall("get", chunk_id, TRUE, FALSE, TRUE,
                                     IF pc_config.enable_compression
                                     THEN pc_decompress_data(compressed_data)
                                     ELSE compressed_data)
                              /\ UNCHANGED pc_parked
       ELSE /\ pc_stats.cache_misses < MaxMisses
            /\ pc_stats' = [pc_stats EXCEPT !.cache_misses = @ + 1]
            /\ pc_ret' = PCCall("get", chunk_id, TRUE, FALSE, FALSE, <<>>)
            /\ UNCHANGED <<pc_chunks, pc_parked>>
    /\ UNCHANGED <<pc_config, pc_files, pc_metadata_json, pc_backup, pc_at_backup,
                   pc_current_cache_size, pc_stored, besidesPC>>

\* ---- is_chunk_cached (persistent_cache.rs:386-389) ----
PCIsChunkCached(chunk_id) ==
    /\ pc_parked = "none"
    /\ pc_ret' = PCCall("is_cached", chunk_id, TRUE, FALSE,
                        pc_is_chunk_cached(chunk_id), <<>>)
    /\ UNCHANGED <<pc_config, pc_chunks, pc_files, pc_metadata_json, pc_backup, pc_at_backup,
                   pc_current_cache_size, pc_stats, pc_parked, pc_stored,
                   besidesPC>>

\* ---- clear_cache (persistent_cache.rs:686-702) ----
\* remove_chunk of the first id (HashMap order) never returns.
PCClearEffect(op) ==
    IF DOMAIN pc_chunks = {}
    THEN /\ pc_current_cache_size' = 0
         /\ pc_ret' = PCCall(op, "", TRUE, FALSE, TRUE, <<>>)
         /\ UNCHANGED <<pc_chunks, pc_files, pc_stats, pc_parked,
                        pc_metadata_json>>
    ELSE /\ \E chunk_id \in DOMAIN pc_chunks : PCRemoveChunkParks(chunk_id)
         /\ pc_ret' = PCCall(op, "", FALSE, FALSE, FALSE, <<>>)

PCClearCache ==
    /\ pc_parked = "none"
    /\ PCClearEffect("clear")
    /\ UNCHANGED <<pc_config, pc_backup, pc_at_backup, pc_stored, besidesPC>>

\* the files of the entries of m that exist in fs
ExistingFiles(m, fs) == [x \in DOMAIN m \cap DOMAIN fs |-> fs[x]]

\* g laid over f
Overlay(f, g) ==
    [x \in DOMAIN f \cup DOMAIN g |-> IF x \in DOMAIN g THEN g[x] ELSE f[x]]

\* what get_chunk returns for each chunk of the metadata, expiry aside
PCLiveData ==
    [k \in DOMAIN pc_chunks \cap DOMAIN pc_files |->
        IF pc_config.enable_compression
        THEN pc_decompress_data(pc_files[k]) ELSE pc_files[k]]

\* ---- backup_cache (persistent_cache.rs:740-777) ----
\* Line 753 copies metadata.json as it lies on disk: the copy fails when
\* no store has written one yet, and the backup directory then exists.
PCBackupCache ==
    /\ pc_parked = "none"
    /\ pc_stats.backup_operations < MaxBackups
    /\ IF ~pc_config.enable_backup
       THEN /\ pc_ret' = PCCall("backup", "", TRUE, FALSE, FALSE, <<>>)
            /\ UNCHANGED <<pc_backup, pc_at_backup, pc_stats>>
       ELSE IF ~pc_metadata_json.exists
       THEN /\ pc_backup' = [pc_backup EXCEPT !.exists = TRUE]
            /\ pc_ret' = PCCall("backup", "", TRUE, TRUE, FALSE, <<>>)
            /\ UNCHANGED <<pc_stats, pc_at_backup>>
       ELSE /\ pc_backup' = [exists |-> TRUE,
                             metadata_json |-> pc_metadata_json,
                             files |-> Overlay(pc_backup.files,
                                               ExistingFiles(pc_chunks, pc_files))]
            /\ pc_stats' = [pc_stats EXCEPT !.backup_operations = @ + 1]
            /\ pc_ret' = PCCall("backup", "", TRUE, FALSE, TRUE, <<>>)
            /\ pc_at_backup' = [taken |-> TRUE, data |-> PCLiveData]
    /\ UNCHANGED <<pc_config, pc_chunks, pc_files, pc_metadata_json,
                   pc_current_cache_size, pc_parked, pc_stored, besidesPC>>

\* ---- restore_cache (persistent_cache.rs:780-824) ----
\* clear_cache first; then the metadata of the backup replaces the one in
\* memory and the backup's files are copied back.  current_cache_size stays
\* at the 0 clear_cache left and metadata.json is not rewritten.
PCRestoreCache ==
    /\ pc_parked = "none"
    /\ pc_stats.restore_operations < MaxRestores
    /\ IF ~pc_backup.exists
       THEN /\ pc_ret' = PCCall("restore", "", TRUE, FALSE, FALSE, <<>>)
            /\ UNCHANGED <<pc_chunks, pc_files, pc_current_cache_size, pc_stats,
                           pc_parked, pc_metadata_json>>
       ELSE IF DOMAIN pc_chunks # {}
       THEN PCClearEffect("restore")
       ELSE LET restored == IF pc_backup.metadata_json.exists
                            THEN pc_backup.metadata_json.chunks
                            ELSE pc_chunks
            IN  /\ pc_current_cache_size' = 0
                /\ pc_chunks' = restored
                /\ pc_files' = Overlay(pc_files,
                                       ExistingFiles(restored, pc_backup.files))
                /\ pc_stats' = [pc_stats EXCEPT !.restore_operations = @ + 1]
                /\ pc_ret' = PCCall("restore", "", TRUE, FALSE, TRUE, <<>>)
                /\ UNCHANGED <<pc_parked, pc_metadata_json>>
    /\ UNCHANGED <<pc_config, pc_backup, pc_at_backup, pc_stored, besidesPC>>

RECURSIVE SumOnDisk(_, _, _)
SumOnDisk(m, fs, ids) ==
    IF ids = {} THEN 0
    ELSE LET x == CHOOSE y \in ids : TRUE
         IN  (IF x \in DOMAIN fs THEN m[x].file_size ELSE 0)
             + SumOnDisk(m, fs, ids \ {x})

\* ---- with_config / load_metadata on the directory as it lies
\* (persistent_cache.rs:145-181, 647-672) ----
\* Every entry of metadata.json is taken over; only the size looks at the
\* files.  A metadata.json that does not parse makes with_config fail.
PCOpen(op, json, fs) ==
    /\ pc_stats' = PCNewStats
    /\ IF json.exists /\ json.corrupt
       THEN /\ pc_chunks' = <<>>
            /\ pc_current_cache_size' = 0
            /\ pc_parked' = "no_manager"
            /\ pc_ret' = PCCall(op, "", TRUE, TRUE, FALSE, <<>>)
       ELSE /\ pc_chunks' = json.chunks
            /\ pc_current_cache_size' = SumOnDisk(json.chunks, fs, DOMAIN json.chunks)
            /\ pc_parked' = "none"
            /\ pc_ret' = PCCall(op, "", TRUE, FALSE, TRUE, <<>>)

\* the process is killed, between calls or parked in one, and started again
PCKillAndReopen ==
    /\ pc_parked # "no_manager"
    /\ PCOpen("reopen", pc_metadata_json, pc_files)
    /\ UNCHANGED <<pc_config, pc_files, pc_metadata_json, pc_backup, pc_at_backup, pc_stored,
                   besidesPC>>

\* ---- Drop (persistent_cache.rs:827-833), then with_config again ----
PCDropAndReopen ==
    /\ pc_parked = "none"
    /\ pc_metadata_json' = MetadataJson(pc_chunks)
    /\ PCOpen("drop_reopen", MetadataJson(pc_chunks), pc_files)
    /\ UNCHANGED <<pc_config, pc_files, pc_backup, pc_at_backup, pc_stored, besidesPC>>

\* The points of store_chunk at which the disk changes: the payload file is
\* created (251), filled (251), and metadata.json is rewritten (642).
KillPoints == {"file_created", "file_written", "json_cut", "json_written"}

\* store_chunk of a new chunk is killed right after the named point and the
\* process is started again
PCStoreKilled(chunk_id, data, is_key_frame, point) ==
    /\ pc_parked = "none"
    /\ ~pc_is_chunk_cached(chunk_id)
    /\ pc_current_cache_size + Size(data) <= pc_max_cache_size
    /\ LET compressed == IF pc_config.enable_compression
                         THEN pc_compress_data(data) ELSE data
           published == With(pc_chunks, chunk_id,
                             PCEntry(data, compressed, is_key_frame))
           fs == With(pc_files, chunk_id,
                      IF point = "file_created" THEN <<>> ELSE compressed)
           json == CASE point = "json_cut" -> CutMetadataJson
                     [] point = "json_written" -> MetadataJson(published)
                     [] OTHER -> pc_metadata_json
       IN  /\ pc_files' = fs
           /\ pc_metadata_json' = json
           /\ pc_stored' = IF point = "json_written"
                           THEN With(pc_stored, chunk_id, data) ELSE pc_stored
           /\ PCOpen("store_killed", json, fs)
    /\ UNCHANGED <<pc_config, pc_backup, pc_at_backup, besidesPC>>

\* the environment damages a chunk file
DamagedBytes == FromBytes(<<0>>)
PCCorruptFile(chunk_id) ==
    /\ pc_parked = "none"
    /\ chunk_id \in DOMAIN pc_files
    /\ pc_files[chunk_id] # DamagedBytes
    /\ pc_files' = [pc_files EXCEPT ![chunk_id] = DamagedBytes]
    /\ pc_ret' = PCCall("corrupt", chunk_id, TRUE, FALSE, FALSE, <<>>)
    /\ UNCHANGED <<pc_config, pc_chunks, pc_metadata_json, pc_backup, pc_at_backup,
                   pc_current_cache_size, pc_stats, pc_parked, pc_stored,
                   besidesPC>>


(***************************************************************************)
(* MemoryPool, FrameBufferManager and MemorySafetyGuard (memory_safe.rs)   *)
(***************************************************************************)
PoolThreads == {"p1", "p2", "p3"}
FbmThreads == {"t1", "t2"}

\* MemorySafetyGuard::new() (memory_safe.rs:249-263)
MaxBuffers == 30
FrameBytes == 1920 * 1080 * 4
MemoryLimitMb == 512
F32Warning == 11744051   \* 0.7 as an f32, times 2^24
F32Critical == 15099494  \* 0.9 as an f32, times 2^24

\* FrameBufferManager::new(max_buffers, buffer_size, max_memory_mb)
\* (memory_safe.rs:60-68)
FbmConfig(max_buffers, buffer_size, max_memory_mb) ==
    [max_buffers |-> max_buffers, buffer_size |-> buffer_size,
     max_memory |-> max_memory_mb * 1024 * 1024]
GuardBuffers == FbmConfig(MaxBuffers, FrameBytes, MemoryLimitMb)

MSCall(op, thread, value) == [op |-> op, thread |-> thread, value |-> value]
MSNoCall == MSCall("none", "", "")

\* MemoryPool::new(max_size) and MemorySafetyGuard::new()
\* (memory_safe.rs:20-26, 249-263)
\* and FrameBufferManager::new (memory_safe.rs:60-68) for a manager made
\* on its own
MSInitOf(sizes, cfgs) ==
    /\ pool = 0
    /\ pool_max_size \in sizes
    /\ allocations = 0
    /\ pool_held = [t \in PoolThreads |-> 0]
    /\ pool_ret = MSNoCall
    /\ buffers = 0
    /\ memory_usage = 0
    /\ fbm_config \in cfgs
    /\ fbm_threads = [t \in FbmThreads |->
                         [pc |-> "idle", memory_current |-> 0, held |-> 0]]
    /\ ms_ret = MSNoCall

MSInitWith(sizes) == MSInitOf(sizes, {GuardBuffers})

\* a ceiling test that lets one allocation too many through
AtOrBelowCeiling(count, max_size) == count <= max_size

\* the test of acquire's second branch (memory_safe.rs:33)
BelowCeiling(count, max_size) == count < max_size

\* ---- MemoryPool::acquire (memory_safe.rs:28-39) ----
\* The whole body runs under the pool mutex, the counter included.
Acquire(t) ==
    /\ IF pool > 0
       THEN /\ pool' = pool - 1
            /\ allocations' = allocations + 1
            /\ pool_held' = [pool_held EXCEPT ![t] = @ + 1]
            /\ pool_ret' = MSCall("acquire", t, "Some")
       ELSE IF BelowCeiling(allocations, pool_max_size)
       THEN /\ allocations' = allocations + 1
            /\ pool_held' = [pool_held EXCEPT ![t] = @ + 1]
            /\ pool_ret' = MSCall("acquire", t, "Some")
            /\ UNCHANGED pool
       ELSE /\ pool_ret' = MSCall("acquire", t, "None")
            /\ UNCHANGED <<pool, allocations, pool_held>>
    /\ UNCHANGED <<pool_max_size, buffers, memory_usage, fbm_config,
                   fbm_threads, ms_ret, besidesMS>>

\* ---- MemoryPool::release (memory_safe.rs:41-47) ----
\* of a box the thread got from acquire
Release(t) ==
    /\ pool_held[t] > 0
    /\ pool' = IF pool < pool_max_size THEN pool + 1 ELSE pool
    /\ allocations' = allocations - 1
    /\ pool_held' = [pool_held EXCEPT ![t] = @ - 1]
    /\ pool_ret' = MSCall("release", t, "")
    /\ UNCHANGED <<pool_max_size, buffers, memory_usage, fbm_config,
                   fbm_threads, ms_ret, besidesMS>>

Min(a, b) == IF a < b THEN a ELSE b

\* ---- FrameBufferManager::get_buffer (memory_safe.rs:70-93) ----
\* Line 71 reads memory_usage; the test of line 78 uses the same value
\* again, so a request that goes to collect_garbage (103-110) comes back
\* with None.  Nothing is locked between the read and the fetch_add of
\* lines 86 and 90, so the call is two steps.
GetBufferLoad(t) ==
    /\ fbm_threads[t].pc = "idle"
    /\ IF memory_usage + fbm_config.buffer_size > fbm_config.max_memory
       THEN /\ buffers' = Min(buffers, fbm_config.max_buffers \div 4)
            /\ ms_ret' = MSCall("get_buffer", t, "None")
            /\ UNCHANGED fbm_threads
       ELSE /\ fbm_threads' = [fbm_threads EXCEPT
                                  ![t].pc = "granted",
                                  ![t].memory_current = memory_usage]
            /\ UNCHANGED <<buffers, ms_ret>>
    /\ UNCHANGED <<pool, pool_max_size, allocations, pool_held, pool_ret,
                   memory_usage, fbm_config, besidesMS>>

GetBufferTake(t) ==
    /\ fbm_threads[t].pc = "granted"
    /\ buffers' = IF buffers > 0 THEN buffers - 1 ELSE 0
    /\ memory_usage' = memory_usage + fbm_config.buffer_size
    /\ fbm_threads' = [fbm_threads EXCEPT ![t].pc = "idle", ![t].held = @ + 1]
    /\ ms_ret' = MSCall("get_buffer", t, "Some")
    /\ UNCHANGED <<pool, pool_max_size, allocations, pool_held, pool_ret,
                   fbm_config, besidesMS>>

\* ---- FrameBufferManager::return_buffer (memory_safe.rs:95-101) ----
\* of a buffer the thread got from get_buffer
ReturnBuffer(t) ==
    /\ fbm_threads[t].pc = "idle"
    /\ fbm_threads[t].held > 0
    /\ buffers' = IF buffers < fbm_config.max_buffers THEN buffers + 1 ELSE buffers
    /\ memory_usage' = memory_usage - fbm_config.buffer_size
    /\ fbm_threads' = [fbm_threads EXCEPT ![t].held = @ - 1]
    /\ ms_ret' = MSCall("return_buffer", t, "")
    /\ UNCHANGED <<pool, pool_max_size, allocations, pool_held, pool_ret,
                   fbm_config, besidesMS>>

\* ---- free_video_frame (memory_safe.rs:381-388) ----
\* of a pointer the thread got from allocate_video_frame (370-379, which
\* is MEMORY_GUARD.allocate_frame, that is get_buffer, and mem::forget):
\* the Vec is rebuilt from the pointer and dropped, and neither free_frame
\* nor return_buffer is called
FreeVideoFrame(t) ==
    /\ fbm_threads[t].pc = "idle"
    /\ fbm_threads[t].held > 0
    /\ fbm_threads' = [fbm_threads EXCEPT ![t].held = @ - 1]
    /\ ms_ret' = MSCall("free_video_frame", t, "")
    /\ UNCHANGED <<pool, pool_max_size, allocations, pool_held, pool_ret,
                   buffers, memory_usage, fbm_config, besidesMS>>

\* ---- get_memory_usage_mb (memory_safe.rs:112-114) ----
get_memory_usage_mb == memory_usage \div (1024 * 1024)

\* usage_mb as f32 / memory_limit_mb as f32 > threshold, for a threshold of
\* thr_num / 2^24: both conversions and the division by 512 are exact
RatioExceeds(usage_mb, thr_num) ==
    usage_mb * (F32Den \div MemoryLimitMb) > thr_num

\* a health check whose Critical starts only above the whole budget
CriticalOverBudget(usage_mb) ==
    IF usage_mb > MemoryLimitMb THEN "Critical"
    ELSE IF RatioExceeds(usage_mb, F32Warning) THEN "Warning"
    ELSE "Healthy"

\* ---- check_memory_health (memory_safe.rs:282-293) ----
check_memory_health(usage_mb) ==
    IF RatioExceeds(usage_mb, F32Critical) THEN "Critical"
    ELSE IF RatioExceeds(usage_mb, F32Warning) THEN "Warning"
    ELSE "Healthy"

CheckMemoryHealth ==
    /\ ms_ret' = MSCall("check_memory_health", "",
                        check_memory_health(get_memory_usage_mb))
    /\ UNCHANGED <<pool, pool_max_size, allocations, pool_held, pool_ret,
                   buffers, memory_usage, fbm_config, fbm_threads, besidesMS>>

(***************************************************************************)
(* VideoEngine (lib.rs)                                                    *)
(***************************************************************************)
EngCall(op, key, value) == [op |-> op, key |-> key, value |-> value]
EngNoCall == EngCall("none", "", FALSE)

\* VideoEngine::new() (lib.rs:46-65)
EngInit ==
    /\ is_running = FALSE
    /\ loops = <<>>
    /\ decode_calls = <<>>
    /\ eng_ret = EngNoCall

MaxLoops == 1            \* processing_loop threads spawned per run
MaxDecodeCalls == 3      \* decode_chunk calls per run
MaxLookups == 3          \* cache lookups of the loop that miss, per run

\* ---- start (lib.rs:68-91) ----
\* a thread at the top of processing_loop
NewLoop == [pc |-> "while", chunk_id |-> "", data |-> <<>>, frames |-> 0]

\* start with at most max threads spawned in a run
StartBounded(max) ==
    /\ IF is_running
       THEN /\ eng_ret' = EngCall("start", "", FALSE)
            /\ UNCHANGED <<is_running, loops>>
       ELSE /\ Len(loops) < max
            /\ is_running' = TRUE
            /\ loops' = Append(loops, NewLoop)
            /\ eng_ret' = EngCall("start", "", TRUE)
    /\ UNCHANGED <<decode_calls, cacheState, fbState, cmState, besidesEngine>>

EngineStart == StartBounded(MaxLoops)

\* ---- stop (lib.rs:94-99) ----
EngineStop ==
    /\ is_running' = FALSE
    /\ eng_ret' = EngCall("stop", "", TRUE)
    /\ UNCHANGED <<loops, decode_calls, cacheState, fbState, cmState,
                   besidesEngine>>

\* ---- add_chunk (lib.rs:101-117) ----
\* store_chunk under the cache lock, its result dropped by unwrap_or, then
\* ChunkManager::add_chunk under the chunk manager's lock.  A store that
\* never returns keeps the call from the second half.
EngineAddChunk(chunk_id, data) ==
    /\ store_chunk(chunk_id, FromBytes(data), FALSE)
    /\ IF ret'.returned
       THEN /\ add_chunk(chunk_id, data)
            /\ eng_ret' = EngCall("add_chunk", chunk_id, TRUE)
       ELSE /\ eng_ret' = EngCall("add_chunk", chunk_id, FALSE)
            /\ UNCHANGED cmState
    /\ UNCHANGED <<is_running, loops, decode_calls, fbState, besidesEngine>>

\* format!("decoded_{}", chunk_id) (lib.rs:211, 244)
DecodedKey(chunk_id) == "decoded_" \o chunk_id

\* What decode_chunk (decoder.rs:284-333) gives back: Err(_), or Ok with
\* no, one or two frames.  The bytes of a decoded frame are the decoder's
\* business; every first frame is taken to hold the same ones.
DecodeOutcomes ==
    {[ok |-> FALSE, frames |-> 0]} \cup {[ok |-> TRUE, frames |-> n] : n \in 0..2}
DecodedData == FromBytes(<<7, 7>>)

\* ---- processing_loop (lib.rs:192-280), thread i ----
\* One step per lock the loop takes.
SetLoop(i, r) == loops' = [loops EXCEPT ![i] = r]

\* while *is_running.lock().unwrap() (lib.rs:201)
LoopWhile(i) ==
    /\ loops[i].pc = "while"
    /\ SetLoop(i, [loops[i] EXCEPT
                      !.pc = IF is_running THEN "get_next" ELSE "ended"])
    /\ UNCHANGED <<is_running, decode_calls, eng_ret, cacheState, fbState,
                   cmState, besidesEngine>>

\* get_next_chunk (lib.rs:203-206); with None the thread sleeps 10 ms and
\* is back at the top (lib.rs:270-273)
LoopGetNextChunk(i) ==
    /\ loops[i].pc = "get_next"
    /\ get_next_chunk
    /\ SetLoop(i, IF cm_ret'.found
                  THEN [pc |-> "lookup", chunk_id |-> cm_ret'.id,
                        data |-> cm_ret'.data, frames |-> 0]
                  ELSE [loops[i] EXCEPT !.pc = "while"])
    /\ UNCHANGED <<is_running, decode_calls, eng_ret, cacheState, fbState,
                   besidesEngine>>

\* the lookup of the decoded frame (lib.rs:209-225)
LoopCacheLookup(i) ==
    /\ loops[i].pc = "lookup"
    /\ is_chunk_cached(DecodedKey(loops[i].chunk_id))
          \/ stats.cache_misses < MaxLookups
    /\ get_chunk(DecodedKey(loops[i].chunk_id))
    /\ SetLoop(i, IF ~ret'.returned THEN loops[i]
                  ELSE IF ret'.found
                  THEN [loops[i] EXCEPT !.pc = "add_frames", !.frames = 1]
                  ELSE [loops[i] EXCEPT !.pc = "decode"])
    /\ UNCHANGED <<is_running, decode_calls, eng_ret, fbState, cmState,
                   besidesEngine>>


\* where the loop goes when decode_chunk returns Err: `continue`
\* (lib.rs:234-237), back to the test of is_running
AfterDecodeFailure == "while"

\* decode_chunk under the decoder's lock (lib.rs:228-239)
LoopDecode(i, outcome) ==
    /\ loops[i].pc = "decode"
    /\ Len(decode_calls) < MaxDecodeCalls
    /\ decode_calls' = Append(decode_calls, [chunk_id |-> loops[i].chunk_id,
                                             ok |-> outcome.ok])
    /\ SetLoop(i, IF ~outcome.ok
                  THEN [loops[i] EXCEPT !.pc = AfterDecodeFailure]
                  ELSE [loops[i] EXCEPT
                           !.frames = outcome.frames,
                           !.pc = IF outcome.frames > 0 THEN "store"
                                  ELSE "add_frames"])
    /\ eng_ret' = EngCall("decode_chunk", loops[i].chunk_id, outcome.ok)
    /\ UNCHANGED <<is_running, cacheState, fbState, cmState, besidesEngine>>

\* the first frame goes to the cache (lib.rs:241-247)
LoopCacheStore(i) ==
    /\ loops[i].pc = "store"
    /\ AccessBounded(DecodedKey(loops[i].chunk_id))
    /\ store_chunk(DecodedKey(loops[i].chunk_id), DecodedData, FALSE)
    /\ SetLoop(i, IF ret'.returned THEN [loops[i] EXCEPT !.pc = "add_frames"]
                  ELSE loops[i])
    /\ UNCHANGED <<is_running, decode_calls, eng_ret, fbState, cmState,
                   besidesEngine>>

\* add_frame for each frame, under one lock of the frame buffer
\* (lib.rs:252-260): a thread that has begun is "adding" and keeps the
\* others out until its frames are in
LoopAddFrames(i) ==
    /\ loops[i].pc \in {"add_frames", "adding"}
    /\ \A j \in DOMAIN loops : j # i => loops[j].pc # "adding"
    /\ IF loops[i].frames = 0
       THEN /\ SetLoop(i, [loops[i] EXCEPT !.pc = "mark"])
            /\ UNCHANGED fbState
       ELSE /\ frames_decoded < MaxDecoded
            /\ add_frame
            /\ SetLoop(i, [loops[i] EXCEPT
                              !.frames = @ - 1,
                              !.pc = IF loops[i].frames = 1 THEN "mark"
                                     ELSE "adding"])
    /\ UNCHANGED <<is_running, decode_calls, eng_ret, cacheState, cmState,
                   besidesEngine>>

\* mark_processed (lib.rs:263-266)
LoopMarkProcessed(i) ==
    /\ loops[i].pc = "mark"
    /\ mark_processed(loops[i].chunk_id)
    /\ SetLoop(i, [loops[i] EXCEPT !.pc = "while"])
    /\ UNCHANGED <<is_running, decode_calls, eng_ret, cacheState, fbState,
                   besidesEngine>>

(***************************************************************************)
(* The predecode thread (frame_buffer.rs)                                  *)
(***************************************************************************)
\* with_capacity_and_predecode has started the thread
\* (frame_buffer.rs:78-111)
WorkerInit ==
    /\ stop_predecode = FALSE
    /\ predecode_thread = TRUE
    /\ worker_pc = "check"
    /\ drop_pc = "alive"

\* ---- Drop for FrameBuffer (frame_buffer.rs:446-455) ----
\* The handle is taken and the flag set by the thread that owns the
\* buffer; with no handle there is nothing to wait for.
DropStart ==
    /\ drop_pc = "alive"
    /\ IF predecode_thread
       THEN /\ predecode_thread' = FALSE
            /\ stop_predecode' = TRUE
            /\ drop_pc' = "joining"
       ELSE /\ drop_pc' = "dropped"
            /\ UNCHANGED <<predecode_thread, stop_predecode>>
    /\ UNCHANGED <<worker_pc, fbState, cacheState, cmState, pcState, msState,
                   engState, now>>

\* a join that returns at once
JoinsAtOnce(pc) == TRUE

\* what thread.join() waits for (frame_buffer.rs:451): the worker's return
Joinable(pc) == pc = "exited"

DropJoin ==
    /\ drop_pc = "joining"
    /\ Joinable(worker_pc)
    /\ drop_pc' = "dropped"
    /\ UNCHANGED <<worker_pc, stop_predecode, predecode_thread, fbState,
                   cacheState, cmState, pcState, msState, engState, now>>

\* the components a specification leaves alone
PCIdle == PCInitWith({PCDefaultConfig})
MSIdle == MSInitWith({10})
RestIdle == PCIdle /\ MSIdle /\ EngInit /\ WorkerInit

(***************************************************************************)
(* Specifications                                                          *)
(***************************************************************************)
\* CacheManager::new() and FrameBuffer::new(60), left alone
DefaultConfig == CacheConfig(500, Thr08, DefaultExpiry, TRUE, TRUE)
CacheIdle == CacheInitWith({DefaultConfig})
FBIdle == FBInitWith({FBConfig(120, 60, 10)})

\* the cache under store, get, clear and the clock
CacheInit == CacheInitWith(Configs) /\ FBIdle /\ CMIdle /\ RestIdle /\ now = TickMs

CacheNext ==
    \/ \E k \in Keys, d \in Payloads : StoreChunk(k, d, k \in KeyFrames)
    \/ \E k \in Keys : GetChunk(k)
    \/ ClearCache
    \/ Tick

SpecCache == CacheInit /\ [][CacheNext]_vars

\* smart eviction under stores and a clock of two steps
SmartConfigs == {c \in Configs : c.enable_smart_eviction}

EvictionInit == CacheInitWith(SmartConfigs) /\ FBIdle /\ CMIdle /\ RestIdle /\ now = TickMs

EvictionNext ==
    \/ \E k \in Keys, d \in Payloads : StoreChunk(k, d, k \in KeyFrames)
    \/ LongTick

SpecEviction == EvictionInit /\ [][EvictionNext]_vars

\* Scenario B (test_cache_cleanup): ten keys, 100 KB each, 1 MB, 0.5
ScenarioKeys == <<"chunk_0", "chunk_1", "chunk_2", "chunk_3", "chunk_4",
                  "chunk_5", "chunk_6", "chunk_7", "chunk_8", "chunk_9">>
ScenarioLen == 100000
ScenarioPayloads == {Zeros(ScenarioLen), <<Run(255, ScenarioLen)>>}
ScenarioConfigs ==
    {CacheConfig(1, Thr05, DefaultExpiry, c, s) : c, s \in BOOLEAN}

ScenarioInit == CacheInitWith(ScenarioConfigs) /\ FBIdle /\ CMIdle /\ RestIdle /\ now = TickMs

StoreNext ==
    /\ stats.total_chunks_stored < Len(ScenarioKeys)
    /\ \E d \in ScenarioPayloads :
          StoreChunk(ScenarioKeys[stats.total_chunks_stored + 1], d, TRUE)

SpecScenarioB == ScenarioInit /\ [][StoreNext]_vars

\* the frame buffer under its public operations
FBInit == FBInitWith(FBConfigs) /\ CacheIdle /\ CMIdle /\ RestIdle /\ now = TickMs

FBNext ==
    \/ AddFrame
    \/ GetNextFrame
    \/ GetCurrentFrame
    \/ OptimizeMemory
    \/ ClearFrames
    \/ HasSufficientPredecodedFrames
    \/ IsReadyForPlayback
    \/ Tick

SpecFrameBuffer == FBInit /\ [][FBNext]_vars

\* the same, on buffers the tests have filled with predecoded frames
FBTestNext == FBNext \/ TestPushPredecoded

SpecFrameBufferTest == FBInit /\ [][FBTestNext]_vars

\* the predecode queue under add_predecode_task, the worker and clear
PredecodeInit == FBInitWith(FBConfigs) /\ CacheIdle /\ CMIdle /\ RestIdle /\ now = TickMs

PredecodeNext ==
    \/ AddPredecodeTask
    \/ WorkerCheckStop
    \/ PredecodeWorker
    \/ ClearFrames

SpecPredecode == PredecodeInit /\ [][PredecodeNext]_vars

\* buffers that ask for a predecoded frame and have room for half a
\* second of frames: with_capacity_and_predecode(2, 4, 1) and (3, 5, 2);
\* the caller queues tasks and adds frames and the worker runs, each
\* whenever it can
GatedConfigs == {FBConfig(2, 4, 1), FBConfig(3, 5, 2)}

ReadinessInit ==
    FBInitWith(GatedConfigs) /\ CacheIdle /\ CMIdle /\ RestIdle /\ now = TickMs

ReadinessNext ==
    \/ AddPredecodeTask
    \/ WorkerCheckStop
    \/ PredecodeWorker
    \/ AddFrame

SpecReadiness ==
    /\ ReadinessInit
    /\ [][ReadinessNext]_vars
    /\ WF_vars(AddPredecodeTask)
    /\ WF_vars(WorkerCheckStop)
    /\ WF_vars(PredecodeWorker)
    /\ WF_vars(AddFrame)

\* the chunk manager under its public operations on the tests' payload,
\* with the capacity of new() and one that two chunks exceed
Capacities == {1, DefaultCapacity}
KnownIds == CallerIds \cup {Uuids[n] : n \in 1..MaxAdds}

CMInit == CMInitWith(Capacities) /\ CacheIdle /\ FBIdle /\ RestIdle /\ now = TickMs

CMNext ==
    \/ /\ next_sequence < MaxAdds
       /\ \E id \in CallerIds : AddChunk(id, TestData)
    \/ GetNextChunk
    \/ /\ cm_stats.processed_chunks < MaxProcessed
       /\ \E id \in KnownIds : MarkProcessed(id)
    \/ \E id \in KnownIds, retry \in BOOLEAN : MarkFailed(id, retry)
    \/ \E id \in KnownIds : GetChunkById(id)
    \/ ClearChunks

SpecChunkManager == CMInit /\ [][CMNext]_vars

\* the chunk manager as the processing loop uses it (lib.rs:205, 265):
\* get_next_chunk, then a mark of the id it returned; a capacity of 4, the
\* least that lets cleanup_old_chunks take a chunk, and more adds than that
LoopCapacity == 4

LoopInit == CMInitWith({LoopCapacity}) /\ CacheIdle /\ FBIdle /\ RestIdle /\ now = TickMs

Returned == cm_ret.op = "get_next_chunk" /\ cm_ret.found

LoopNext ==
    \/ /\ next_sequence < LoopAdds
       /\ \E id \in CallerIds, d \in CMPayloads : AddChunk(id, d)
    \/ GetNextChunk
    \/ /\ Returned
       /\ cm_stats.processed_chunks < LoopProcessed
       /\ MarkProcessed(cm_ret.id)
    \/ /\ Returned
       /\ \E retry \in BOOLEAN : MarkFailed(cm_ret.id, retry)

SpecChunkLoop == LoopInit /\ [][LoopNext]_vars

\* the same with clear
IndexNext ==
    \/ /\ next_sequence < LoopAdds
       /\ \E id \in CallerIds : AddChunk(id, TestData)
    \/ GetNextChunk
    \/ /\ Returned
       /\ cm_stats.processed_chunks < LoopProcessed
       /\ MarkProcessed(cm_ret.id)
    \/ /\ Returned
       /\ \E retry \in BOOLEAN : MarkFailed(cm_ret.id, retry)
    \/ ClearChunks

SpecChunkIndex == LoopInit /\ [][IndexNext]_vars

\* The persistent cache: two chunk ids, a payload of 5 bytes and one of
\* 600000, 1 MB caches of uncompressed files and the default cache.
PCKeys == {"c1", "c2"}
PCPayloads == {PayloadTest, PayloadBig}
PCSmall(integrity) == PCConfig(1, Thr05, ExpirySeconds, FALSE, TRUE, integrity, TRUE)
PCInit(cfgs) ==
    /\ PCInitWith(cfgs)
    /\ CacheIdle /\ FBIdle /\ CMIdle /\ MSIdle /\ EngInit /\ WorkerInit
    /\ now = TickMs

\* stores whose writes succeed
PCStoresOk ==
    \E id \in PCKeys, data \in PCPayloads :
        PCStoreChunk(id, data, id \in KeyFrames, "ok", TRUE)

\* stores whose writes may fail
PCStores ==
    \E id \in PCKeys, data \in PCPayloads, write \in WriteOutcomes,
       save_ok \in BOOLEAN :
        PCStoreChunk(id, data, id \in KeyFrames, write, save_ok)

\* stores, gets, files that go bad and the clock, with and without the
\* integrity check
IntegrityInit == PCInit({PCSmall(TRUE), PCSmall(FALSE)})

IntegrityNext ==
    \/ PCStoresOk
    \/ \E id \in PCKeys : PCGetChunk(id) \/ PCCorruptFile(id)
    \/ Tick

SpecIntegrity == IntegrityInit /\ [][IntegrityNext]_vars

\* stores that succeed, fail or are cut short by a kill, and restarts
PublishInit == PCInit({PCSmall(TRUE), PCDefaultConfig})

PublishNext ==
    \/ PCStores
    \/ \E id \in PCKeys, data \in PCPayloads, point \in KillPoints :
         PCStoreKilled(id, data, id \in KeyFrames, point)
    \/ \E id \in PCKeys : PCIsChunkCached(id)
    \/ PCKillAndReopen
    \/ PCDropAndReopen

SpecPublish == PublishInit /\ [][PublishNext]_vars

\* stores, gets, clear, backup and restore
BackupInit == PCInit({PCSmall(TRUE), PCDefaultConfig})

BackupNext ==
    \/ PCStoresOk
    \/ \E id \in PCKeys : PCGetChunk(id)
    \/ PCClearCache
    \/ PCBackupCache
    \/ PCRestoreCache

SpecBackup == BackupInit /\ [][BackupNext]_vars

\* three threads on pools of 2 boxes and of the guard's 10
PoolSizes == {2, 10}
PoolInit ==
    /\ MSInitWith(PoolSizes)
    /\ CacheIdle /\ FBIdle /\ CMIdle /\ PCIdle /\ EngInit /\ WorkerInit
    /\ now = TickMs

PoolNext == \E t \in PoolThreads : Acquire(t) \/ Release(t)

SpecPool == PoolInit /\ [][PoolNext]_vars

\* one thread that takes frames from the guard and gives them back, and
\* the health check
HealthInit ==
    /\ MSIdle
    /\ CacheIdle /\ FBIdle /\ CMIdle /\ PCIdle /\ EngInit /\ WorkerInit
    /\ now = TickMs

HealthNext ==
    \/ GetBufferLoad("t1")
    \/ GetBufferTake("t1")
    \/ ReturnBuffer("t1")
    \/ CheckMemoryHealth

SpecHealth == HealthInit /\ [][HealthNext]_vars

\* two threads on one FrameBufferManager::new(4, 1 MiB, 2) and on one
\* FrameBufferManager::new(2, 1 MiB, 3): budgets of two and of three
\* buffers
SmallBuffers == {FbmConfig(4, 1024 * 1024, 2), FbmConfig(2, 1024 * 1024, 3)}

BudgetInit ==
    /\ MSInitOf({10}, SmallBuffers)
    /\ CacheIdle /\ FBIdle /\ CMIdle /\ PCIdle /\ EngInit /\ WorkerInit
    /\ now = TickMs

BudgetNext ==
    \/ \E t \in FbmThreads : GetBufferLoad(t)
    \/ \E t \in FbmThreads : GetBufferTake(t)
    \/ \E t \in FbmThreads : ReturnBuffer(t)

SpecBudget == BudgetInit /\ [][BudgetNext]_vars

\* one caller of allocate_video_frame and free_video_frame on the global
\* guard
FramesNext ==
    \/ GetBufferLoad("t1")
    \/ GetBufferTake("t1")
    \/ FreeVideoFrame("t1")

SpecFrames == HealthInit /\ [][FramesNext]_vars

\* the engine's add_chunk and the frame buffer's add_predecode_task beside
\* a memory guard whose frames are taken and never given back: usage
\* climbs from Healthy through Warning to Critical
PressureTasks == 1           \* add_predecode_task calls per run

BackpressureInit ==
    /\ MSIdle
    /\ CacheIdle /\ FBIdle /\ CMIdle /\ PCIdle /\ EngInit /\ WorkerInit
    /\ now = TickMs

BackpressureNext ==
    \/ GetBufferLoad("t1")
    \/ GetBufferTake("t1")
    \/ CheckMemoryHealth
    \/ /\ next_sequence < MaxAdds
       /\ \E id \in CallerIds :
             AccessBounded(id) /\ EngineAddChunk(id, TestData)
    \/ tasks_added < PressureTasks /\ AddPredecodeTask

SpecBackpressure == BackpressureInit /\ [][BackpressureNext]_vars

\* the engine of VideoEngine::new under start, stop and add_chunk, with
\* the threads that start spawns taking their steps in any order and the
\* decoder free to fail
EngineInit ==
    /\ EngInit
    /\ CacheIdle /\ FBIdle /\ CMIdle /\ PCIdle /\ MSIdle /\ WorkerInit
    /\ now = TickMs

EngineNext ==
    \/ EngineStart
    \/ EngineStop
    \/ /\ next_sequence < MaxAdds
       /\ \E id \in CallerIds :
             AccessBounded(id) /\ EngineAddChunk(id, TestData)
    \/ \E i \in DOMAIN loops : LoopWhile(i)
    \/ \E i \in DOMAIN loops : LoopGetNextChunk(i)
    \/ \E i \in DOMAIN loops : LoopCacheLookup(i)
    \/ \E i \in DOMAIN loops, outcome \in DecodeOutcomes : LoopDecode(i, outcome)
    \/ \E i \in DOMAIN loops : LoopCacheStore(i)
    \/ \E i \in DOMAIN loops : LoopAddFrames(i)
    \/ \E i \in DOMAIN loops : LoopMarkProcessed(i)

SpecEngine == EngineInit /\ [][EngineNext]_vars

\* the engine started, stopped and started again with no chunk added:
\* every thread that start spawned tests is_running and asks the chunk
\* manager for a chunk, in any order
MaxRestarts == 3         \* processing_loop threads spawned per run

RestartNext ==
    \/ StartBounded(MaxRestarts)
    \/ EngineStop
    \/ \E i \in DOMAIN loops : LoopWhile(i)
    \/ \E i \in DOMAIN loops : LoopGetNextChunk(i)

SpecRestart == EngineInit /\ [][RestartNext]_vars

\* the engine started and left running, with a decoder that succeeds on
\* every chunk; the loop's thread is scheduled whenever it can take a step
Decoded == {outcome \in DecodeOutcomes : outcome.ok}

LoopTurn ==
    \E i \in DOMAIN loops :
       \/ LoopWhile(i)
       \/ LoopGetNextChunk(i)
       \/ LoopCacheLookup(i)
       \/ \E outcome \in Decoded : LoopDecode(i, outcome)
       \/ LoopCacheStore(i)
       \/ LoopAddFrames(i)
       \/ LoopMarkProcessed(i)

PipelineNext ==
    \/ EngineStart
    \/ /\ next_sequence < MaxAdds
       /\ \E id \in CallerIds :
             AccessBounded(id) /\ EngineAddChunk(id, TestData)
    \/ \E i \in DOMAIN loops : LoopWhile(i)
    \/ \E i \in DOMAIN loops : LoopGetNextChunk(i)
    \/ \E i \in DOMAIN loops : LoopCacheLookup(i)
    \/ \E i \in DOMAIN loops, outcome \in Decoded : LoopDecode(i, outcome)
    \/ \E i \in DOMAIN loops : LoopCacheStore(i)
    \/ \E i \in DOMAIN loops : LoopAddFrames(i)
    \/ \E i \in DOMAIN loops : LoopMarkProcessed(i)

SpecPipeline ==
    /\ EngineInit
    /\ [][PipelineNext]_vars
    /\ WF_vars(LoopTurn)

\* a frame buffer of FrameBuffer::new(60) with its worker, tasks added
\* while the buffer is owned, and its drop; the worker's thread and the
\* join are scheduled by the system, which lets every runnable thread run
ShutdownTasks == 3           \* add_predecode_task calls per run

ShutdownInit ==
    /\ FBIdle /\ WorkerInit
    /\ CacheIdle /\ CMIdle /\ PCIdle /\ MSIdle /\ EngInit
    /\ now = TickMs

ShutdownNext ==
    \/ drop_pc = "alive" /\ tasks_added < ShutdownTasks /\ AddPredecodeTask
    \/ WorkerCheckStop
    \/ PredecodeWorker
    \/ DropStart
    \/ DropJoin

SpecShutdown ==
    /\ ShutdownInit
    /\ [][ShutdownNext]_vars
    /\ WF_vars(WorkerCheckStop)
    /\ WF_vars(PredecodeWorker)
    /\ WF_vars(DropJoin)

Spec == SpecCache

(***************************************************************************)
(* Properties of the chunk cache                                           *)
(***************************************************************************)
Range(seq) == {seq[i] : i \in DOMAIN seq}

RECURSIVE SumFileSize(_, _)
SumFileSize(m, S) ==
    IF S = {} THEN 0
    ELSE LET k == CHOOSE x \in S : TRUE
         IN  m[k].file_size + SumFileSize(m, S \ {k})

\* the bytes the cache holds: the file sizes of its entries
TotalSize == SumFileSize(chunks, DOMAIN chunks)

\* C1: a get that finds the chunk returns the bytes its store was given,
\* with compression enabled or disabled.
C1_RoundTrip ==
    (ret.op = "get" /\ ret.returned /\ ret.found)
        => ret.data = stored_data[ret.key]

C3_ScenarioB ==
    stats.total_chunks_stored = Len(ScenarioKeys)
        => /\ stats.total_chunks_evicted > 0
           /\ 2 * current_cache_size <= max_cache_size

\* C4: a store that entered cleanup_cache returns, and the cache then holds
\* at most target_size bytes beside the entry just stored.
C4_CleanupBound ==
    (ret.op = "store" /\ ret.cleanup)
        => /\ ret.returned
           /\ ret.key \in DOMAIN chunks
           /\ current_cache_size <= target_size + chunks[ret.key].file_size

\* Entries at least one clock step old.  From an age of 16 s on, the f32
\* scores of the code are equal exactly where the exact scores are.
Settled(m) == \A k \in DOMAIN m : now - m[k].created_at >= TickMs

\* C5: in a smart cleanup a key frame is in chunks_to_remove only behind
\* every chunk that is no key frame and whose score is equal or lower.
C5_KeyFrameBias ==
    (ret.cleanup /\ config.enable_smart_eviction /\ Settled(ret.pre))
        => \A i \in DOMAIN ret.plan :
              ret.pre[ret.plan[i]].is_key_frame
                 => \A x \in DOMAIN ret.pre :
                       ( /\ ~ret.pre[x].is_key_frame
                         /\ ~ScoreLess(ret.pre[ret.plan[i]], ret.pre[x]) )
                          => \E j \in 1..(i - 1) : ret.plan[j] = x

\* C6: a smart cleanup removes a chunk only if it removes every chunk of
\* strictly higher score too.
C6_DescendingOrder ==
    (ret.cleanup /\ config.enable_smart_eviction)
        => \A e \in Range(ret.plan), x \in DOMAIN ret.pre :
              ScoreLess(ret.pre[e], ret.pre[x]) => x \in Range(ret.plan)

(***************************************************************************)
(* Properties of the frame buffer                                          *)
(***************************************************************************)
\* C7: the ring never holds more than max_frames frames.
C7_SizeBound == Len(frames) <= max_frames

\* add_frame has dropped a frame of a full ring and left it full
C7_Witness ==
    /\ fb_ret.op = "add_frame"
    /\ dropped_frames > 0
    /\ Len(frames) = max_frames

\* the step is an add_frame call that finds the ring full and its oldest
\* frame never consumed (only add_frame takes a frame from the decoder)
AddEvictsUnconsumed ==
    /\ frames_decoded' # frames_decoded
    /\ Len(frames) >= max_frames
    /\ frames # <<>>
    /\ ~Head(frames).is_consumed

\* C8, as the code has it: dropped_frames grows by one in every add_frame
\* call that evicts a frame never consumed; any other step leaves it alone,
\* but for clear, which sets it to 0.
C8_DroppedFrames ==
    [][ /\ AddEvictsUnconsumed => dropped_frames' = dropped_frames + 1
        /\ ~AddEvictsUnconsumed =>
              \/ dropped_frames' = dropped_frames
              \/ fb_ret'.op = "clear" /\ dropped_frames' = 0 ]_vars

\* add_frame has evicted a frame never consumed and counted it, with a
\* consumed frame still in the ring
C8_Witness ==
    /\ fb_ret.op = "add_frame"
    /\ dropped_frames = 1
    /\ \E i \in DOMAIN frames : frames[i].is_consumed

\* C8, as stated: dropped_frames grows by one in every add_frame call that
\* evicts a frame never consumed, and no other step changes it.
C8_DroppedOnlyByAdd ==
    [][ /\ AddEvictsUnconsumed => dropped_frames' = dropped_frames + 1
        /\ ~AddEvictsUnconsumed => dropped_frames' = dropped_frames ]_vars

C10_TestReady ==
    ( /\ fb_ret.op = "is_ready_for_playback"
      /\ max_frames = 20 /\ target_fps = 60 /\ min_predecoded_frames = 10
      /\ Len(frames) = TestPushCount
      /\ \A i \in DOMAIN frames :
            frames[i].is_predecoded /\ ~frames[i].is_consumed )
        => has_sufficient_predecoded_frames /\ fb_ret.ok

(***************************************************************************)
(* Properties of the predecode queue                                       *)
(***************************************************************************)
\* High before Medium before Low (frame_buffer.rs:57-62)
Rank(priority) ==
    CASE priority = "High" -> 0
      [] priority = "Medium" -> 1
      [] priority = "Low" -> 2

Priorities(q) == [i \in DOMAIN q |-> q[i].priority]

\* C11: whatever add_predecode_task calls and worker dequeues have been
\* made, no Medium or Low task is queued ahead of a High task and no Low
\* task ahead of a Medium task.
C11_PriorityOrder ==
    \A i, j \in DOMAIN predecode_queue :
        i < j => Rank(predecode_queue[i].priority)
                     <= Rank(predecode_queue[j].priority)

\* Low, High, Medium, High have been enqueued and none dequeued: the queue
\* reads High, High, Medium, Low
C11_Witness ==
    /\ tasks_added = 4
    /\ Priorities(predecode_queue) = <<"High", "High", "Medium", "Low">>
    /\ predecode_queue[4].chunk_id = 1
    /\ predecode_queue[3].chunk_id = 3

\* C12: of two queued tasks of one priority, the one enqueued first is
\* nearer the front of the queue, from which the worker dequeues.
C12_FifoWithinTier ==
    \A i, j \in DOMAIN predecode_queue :
        (i < j /\ predecode_queue[i].priority = predecode_queue[j].priority)
            => predecode_queue[i].chunk_id < predecode_queue[j].chunk_id

(***************************************************************************)
(* Properties of the chunk manager                                         *)
(***************************************************************************)
Tracked == DOMAIN chunks_by_id

\* the step is a call of the named method (every call leaves its name in
\* cm_ret, and a step that changes nothing is no step)
CalledCM(op) == cm_ret'.op = op

\* C13: of the mark_failed(id, true) calls on a tracked chunk not yet
\* processed, those that find retry count 0 or 1 leave it unprocessed and
\* failed_chunks as it was, and the one that finds 2 sets is_processed and
\* adds 1 to failed_chunks; no mark_failed call returns an error.
C13_RetryCeiling ==
    [][ /\ CalledCM("mark_failed") => cm_ret'.ok
        /\ \A id \in Tracked :
              (MarkFailed(id, TRUE) /\ ~chunks_by_id[id].is_processed)
                  => IF chunks_by_id[id].retry_count < RetryCeiling - 1
                     THEN /\ ~chunks_by_id'[id].is_processed
                          /\ cm_stats'.failed_chunks = cm_stats.failed_chunks
                     ELSE /\ chunks_by_id[id].retry_count = RetryCeiling - 1
                          /\ chunks_by_id'[id].is_processed
                          /\ cm_stats'.failed_chunks
                                 = cm_stats.failed_chunks + 1 ]_vars

\* a chunk never marked processed has failed three times and is counted as
\* failed once
C13_Witness ==
    /\ cm_ret.op = "mark_failed"
    /\ cm_stats.processed_chunks = 0
    /\ cm_stats.failed_chunks = 1
    /\ \E id \in Tracked :
          /\ chunks_by_id[id].retry_count = RetryCeiling
          /\ chunks_by_id[id].is_processed

\* C14: get_next_chunk never returns a chunk that mark_processed or a
\* permanent failure has made terminal.
C14_TerminalLeavesPending ==
    (cm_ret.op = "get_next_chunk" /\ cm_ret.found /\ cm_ret.id \in Tracked)
        => ~chunks_by_id[cm_ret.id].is_processed

\* C15: no chunk has a retry count above 3.
C15_RetryBounded ==
    \A id \in Tracked : chunks_by_id[id].retry_count <= RetryCeiling

\* C16: a get_next_chunk call that finds the oldest queued chunk
\* unprocessed returns its id and payload and leaves the queue, both
\* indexes and the pending count as they were.
C16_Peek ==
    [][ ( /\ CalledCM("get_next_chunk")
          /\ pending_chunks # <<>>
          /\ ~Head(pending_chunks).is_processed
          /\ Head(pending_chunks).id \in Tracked
          /\ ~chunks_by_id[Head(pending_chunks).id].is_processed )
            => /\ cm_ret'.found
               /\ cm_ret'.id = Head(pending_chunks).id
               /\ cm_ret'.data = Head(pending_chunks).data
               /\ pending_chunks' = pending_chunks
               /\ chunks_by_id' = chunks_by_id
               /\ chunks_by_sequence' = chunks_by_sequence
               /\ cm_stats'.current_pending = cm_stats.current_pending ]_vars

\* get_next_chunk has returned the oldest of several queued chunks, one
\* that is not processed, and the queue still holds it
C16_Witness ==
    /\ cm_ret.op = "get_next_chunk"
    /\ cm_ret.found
    /\ Len(pending_chunks) >= 2
    /\ cm_ret.id = Head(pending_chunks).id
    /\ cm_ret.data = Head(pending_chunks).data
    /\ pending_chunks[2].data # cm_ret.data
    /\ ~chunks_by_id[cm_ret.id].is_processed

\* C17: a get_chunk(id) that follows add_chunk(id, bytes) returns a chunk
\* whose payload is bytes.
C17_IndexedByCallerId ==
    [][ ( /\ cm_ret.op = "add_chunk"
          /\ cm_ret.ok
          /\ CalledCM("get_chunk")
          /\ cm_ret'.chunk_id = cm_ret.chunk_id )
            => cm_ret'.found /\ cm_ret'.data = cm_ret.data ]_vars

\* C18: an add_chunk that follows an add_chunk of the same id returns Ok and
\* leaves the number of tracked chunks, the pending count, total_chunks and
\* the next sequence number as they were.
C18_DuplicateNoOp ==
    [][ ( /\ cm_ret.op = "add_chunk"
          /\ cm_ret.ok
          /\ CalledCM("add_chunk")
          /\ cm_ret'.chunk_id = cm_ret.chunk_id )
            => /\ cm_ret'.ok
               /\ Cardinality(DOMAIN chunks_by_id') = Cardinality(Tracked)
               /\ Len(pending_chunks') = Len(pending_chunks)
               /\ cm_stats'.total_chunks = cm_stats.total_chunks
               /\ next_sequence' = next_sequence ]_vars

\* C19: the k-th add_chunk of a manager gives its chunk sequence number
\* k - 1 and indexes it under that number, and no two tracked chunks share
\* a sequence number.
C19_ContiguousSequence ==
    [][ CalledCM("add_chunk")
            => LET chunk == pending_chunks'[Len(pending_chunks')]
               IN  /\ cm_stats'.total_chunks = cm_stats.total_chunks + 1
                   /\ chunk.sequence_number = cm_stats'.total_chunks - 1
                   /\ chunk.id \in DOMAIN chunks_by_id'
                   /\ chunks_by_id'[chunk.id].sequence_number
                          = chunk.sequence_number
                   /\ chunks_by_sequence'[chunk.sequence_number] = chunk.id
                   /\ \A a, b \in DOMAIN chunks_by_id' :
                          a # b => chunks_by_id'[a].sequence_number
                                       # chunks_by_id'[b].sequence_number ]_vars

\* the fifth chunk has been added after cleanup_old_chunks took a processed
\* chunk: sequence numbers 0..4 are given, four chunks are tracked
C19_Witness ==
    /\ cm_ret.op = "add_chunk"
    /\ cm_stats.total_chunks = LoopCapacity + 1
    /\ Cardinality(Tracked) = LoopCapacity
    /\ pending_chunks[Len(pending_chunks)].sequence_number = LoopCapacity

\* C20: a mark_failed(id, retry) call on a tracked chunk adds 1 to its
\* retry count; when retry is true and the new count is below 3 the call
\* changes nothing else (the chunk keeps its flag and its place in the
\* queue, failed_chunks its value); otherwise the chunk is processed and
\* failed_chunks has grown by 1.  No step clears a processed flag.
C20_FailureTransition ==
    [][ /\ \A id \in Tracked, retry \in BOOLEAN :
              MarkFailed(id, retry)
                  => LET before == chunks_by_id[id]
                         after == chunks_by_id'[id]
                     IN  /\ after.retry_count = before.retry_count + 1
                         /\ IF retry /\ after.retry_count < 3
                            THEN /\ after.is_processed = before.is_processed
                                 /\ pending_chunks' = pending_chunks
                                 /\ cm_stats' = cm_stats
                            ELSE /\ after.is_processed
                                 /\ cm_stats'.failed_chunks
                                        = cm_stats.failed_chunks + 1
        /\ \A id \in Tracked \cap DOMAIN chunks_by_id' :
              chunks_by_id[id].is_processed
                  => chunks_by_id'[id].is_processed ]_vars

\* mark_failed(id, false) has failed for good a chunk that had been left
\* to retry once
C20_Witness ==
    /\ cm_ret.op = "mark_failed"
    /\ cm_stats.failed_chunks = 1
    /\ cm_stats.processed_chunks = 0
    /\ \E id \in Tracked :
          /\ chunks_by_id[id].retry_count = 2
          /\ chunks_by_id[id].is_processed

(***************************************************************************)
(* Further properties of the chunk cache                                   *)
(***************************************************************************)
\* the step is a store_chunk call on a key the cache holds (the clock
\* stands still during a call, and every other call leaves its own name)
StoreOnCached ==
    /\ ret'.op = "store"
    /\ now' = now
    /\ is_chunk_cached(ret'.key)

\* C21: store_chunk on a cached key returns Ok(true) and leaves the file,
\* the entry's size and created_at, every other entry, the cache size and
\* the counters as they were; the entry's last_accessed becomes the time of
\* the call and its access_count grows by 1.
C21_StoreOnCachedKey ==
    [][ StoreOnCached
            => LET k == ret'.key
               IN  /\ ret'.returned /\ ret'.found
                   /\ files' = files
                   /\ stored_data' = stored_data
                   /\ current_cache_size' = current_cache_size
                   /\ stats' = stats
                   /\ DOMAIN chunks' = DOMAIN chunks
                   /\ \A c \in DOMAIN chunks \ {k} : chunks'[c] = chunks[c]
                   /\ chunks'[k] =
                          [chunks[k] EXCEPT !.last_accessed = now,
                                            !.access_count = @ + 1] ]_vars

\* a key has been stored again some time after its first store
C21_Witness ==
    /\ ret.op = "store"
    /\ ret.returned
    /\ is_chunk_cached(ret.key)
    /\ chunks[ret.key].access_count = 2
    /\ chunks[ret.key].last_accessed > chunks[ret.key].created_at

\* a get_chunk call on a cached chunk whose age is past chunk_expiration
GetOnExpired ==
    /\ ret'.op = "get"
    /\ now' = now
    /\ is_chunk_cached(ret'.key)
    /\ now - chunks[ret'.key].created_at > config.chunk_expiration * 1000

\* C22: a get of an expired chunk behaves as a get of an absent key does: it
\* returns no data, the entry is gone, its file size is taken off the cache
\* size and one miss is counted.
C22_ExpiredIsMiss ==
    [][ GetOnExpired =>
          LET k == ret'.key
          IN  /\ ret'.returned
              /\ ~ret'.found
              /\ ~(k \in DOMAIN chunks')
              /\ current_cache_size' = current_cache_size - chunks[k].file_size
              /\ stats'.cache_misses = stats.cache_misses + 1 ]_vars

(***************************************************************************)
(* Properties of the persistent cache                                      *)
(***************************************************************************)
\* a get_chunk call, with the integrity check on, on a live entry whose
\* file no longer has the digest the entry records
GetOnDamaged ==
    /\ pc_ret'.op = "get"
    /\ now' = now
    /\ pc_config.enable_integrity_check
    /\ pc_is_chunk_cached(pc_ret'.key)
    /\ now <= pc_chunks[pc_ret'.key].expires_at
    /\ pc_ret'.key \in DOMAIN pc_files
    /\ calculate_data_hash(pc_files[pc_ret'.key]) # pc_chunks[pc_ret'.key].file_hash

\* C23: with the integrity check on, a get of an entry whose file does not
\* match its digest returns a miss and no error, the entry is evicted, and
\* integrity_failures grows by exactly 1.
C23_IntegrityMismatchIsMiss ==
    [][ GetOnDamaged =>
          /\ pc_ret'.returned
          /\ ~pc_ret'.error
          /\ ~pc_ret'.value
          /\ ~(pc_ret'.key \in DOMAIN pc_chunks')
          /\ pc_stats'.integrity_failures = pc_stats.integrity_failures + 1 ]_vars

\* C24: an entry is visible in the metadata only when its payload has been
\* written: whatever stores succeeded, failed or were cut short by a kill,
\* every chunk the manager reports as cached has its file on disk, with the
\* bytes whose digest the entry records.
C24_NoEntryWithoutPayload ==
    \A k \in DOMAIN pc_chunks :
        /\ k \in DOMAIN pc_files
        /\ calculate_data_hash(pc_files[k]) = pc_chunks[k].file_hash

\* a restore_cache call made after a backup_cache call has returned true
RestoreAfterBackup ==
    /\ pc_ret'.op = "restore"
    /\ pc_ret' # pc_ret
    /\ pc_at_backup.taken

\* C25: a restore after a backup that returned true returns true and leaves
\* exactly the chunks that were cached when the backup was made, each with
\* the data get_chunk returned for it then.
C25_BackupRestoreRoundTrip ==
    [][ RestoreAfterBackup =>
          /\ pc_ret'.returned
          /\ pc_ret'.value
          /\ DOMAIN pc_chunks' = DOMAIN pc_at_backup.data
          /\ \A k \in DOMAIN pc_chunks' :
                /\ k \in DOMAIN pc_files'
                /\ (IF pc_config.enable_compression
                    THEN pc_decompress_data(pc_files'[k]) ELSE pc_files'[k])
                       = pc_at_backup.data[k] ]_vars

(***************************************************************************)
(* Properties of the memory guard                                          *)
(***************************************************************************)
RECURSIVE SumHeld(_, _)
SumHeld(f, S) ==
    IF S = {} THEN 0
    ELSE LET t == CHOOSE x \in S : TRUE IN f[t] + SumHeld(f, S \ {t})

\* the boxes acquired and not yet released, over all threads
Outstanding == SumHeld(pool_held, PoolThreads)

\* C26: under any interleaving of acquire and release by several threads
\* the outstanding boxes never exceed max_size (and are what the counter
\* says), and an acquire that returned None found the free list empty and
\* max_size boxes outstanding.
C26_PoolCeiling ==
    /\ Outstanding <= pool_max_size
    /\ allocations = Outstanding
    /\ (pool_ret.op = "acquire" /\ pool_ret.value = "None")
           => (pool = 0 /\ Outstanding = pool_max_size)

\* exhaustion reported to one thread while two others hold the boxes
C26_Witness ==
    /\ pool_ret = MSCall("acquire", "p3", "None")
    /\ pool_held["p1"] > 0
    /\ pool_held["p2"] > 0
    /\ pool_held["p3"] = 0

\* C27: check_memory_health says Critical exactly when memory_usage is at
\* least 90% of the 512 MB budget, Warning exactly when it is at least 70%
\* and below 90%, Healthy otherwise.
\* bytes >= tenths/10 of the budget, without products beyond 32 bits
AtLeastTenths(bytes, tenths) ==
    10 * (bytes \div BytesPerMB) + (10 * (bytes % BytesPerMB)) \div BytesPerMB
        >= tenths * MemoryLimitMb

C27_HealthThresholds ==
    LET health == check_memory_health(get_memory_usage_mb)
    IN  /\ (ms_ret.op = "check_memory_health") => (ms_ret.value = health)
        /\ (health = "Critical") <=> AtLeastTenths(memory_usage, 9)
        /\ (health = "Warning") <=> (AtLeastTenths(memory_usage, 7)
                                     /\ ~AtLeastTenths(memory_usage, 9))
        /\ (health = "Healthy") <=> ~AtLeastTenths(memory_usage, 7)

\* Critical reported with the usage still inside the budget
C27_Witness ==
    /\ ms_ret = MSCall("check_memory_health", "", "Critical")
    /\ memory_usage <= fbm_config.max_memory
    /\ buffers > 0

(***************************************************************************)
(* Properties of the engine                                                *)
(***************************************************************************)
\* an add_chunk of the engine or an add_predecode_task of the frame buffer,
\* called while check_memory_health would answer Critical
AddWhileCritical ==
    /\ check_memory_health(get_memory_usage_mb) = "Critical"
    /\ \/ \E id \in CallerIds : EngineAddChunk(id, TestData)
       \/ AddPredecodeTask

\* C28: while the memory guard reports Critical, an add_chunk of the engine
\* and an add_predecode_task of the frame buffer enqueue nothing: the queue
\* of pending chunks and the predecode queue are as they were.
C28_NoEnqueueWhileCritical ==
    [][ AddWhileCritical =>
          /\ pending_chunks' = pending_chunks
          /\ predecode_queue' = predecode_queue ]_vars

\* C29: a chunk the decoder has failed on is not handed to the decoder
\* again: the loop marks it processed and goes on to the next pending one,
\* so no later decode_chunk call is for the same chunk.
C29_FailedChunkNotDecodedAgain ==
    \A i \in DOMAIN decode_calls :
       ~decode_calls[i].ok =>
           \A j \in DOMAIN decode_calls :
              j > i => decode_calls[j].chunk_id # decode_calls[i].chunk_id

(***************************************************************************)
(* Properties of the predecode worker's shutdown                           *)
(***************************************************************************)
\* a step of the worker: its place in the loop or the queue's front changes
WorkerStep ==
    worker_pc' # worker_pc \/ Len(predecode_queue') < Len(predecode_queue)

\* with the flag set, a worker at the top of its loop takes no further
\* task: it leaves the loop
LeavesAtCheck ==
    (stop_predecode /\ worker_pc \in {"check", "exited"})
        => /\ worker_pc' \in {"check", "exited"}
           /\ predecode_queue' = predecode_queue

\* C30: once the stop flag is set the worker finishes at most the turn it
\* is in and exits at its next test of the flag; the drop of the buffer
\* returns only when the worker has exited, and eventually does; after it
\* the worker takes no step.
C30_WorkerStopsBeforeTeardown ==
    /\ [][LeavesAtCheck]_vars
    /\ [](drop_pc = "dropped" => worker_pc = "exited")
    /\ [][drop_pc = "dropped" => ~WorkerStep]_vars
    /\ (stop_predecode ~> worker_pc = "exited")
    /\ (drop_pc = "joining" ~> drop_pc = "dropped")

\* the drop has returned with a task still queued: the flag was set while
\* the queue was not empty, and the worker left without draining it
C30_Witness ==
    /\ drop_pc = "dropped"
    /\ worker_pc = "exited"
    /\ stop_predecode
    /\ ~predecode_thread
    /\ predecode_queue # <<>>

(***************************************************************************)
(* Further properties of the engine                                        *)
(***************************************************************************)
\* C31: with the engine stopped the processing loop does no work: a thread
\* of the loop takes no step but the test of is_running that ends it, so no
\* chunk is fetched or decoded, no frame added and no chunk marked.
C31_NoLoopWorkAfterStop ==
    [][ ~is_running =>
          \A i \in DOMAIN loops :
             loops'[i] = loops[i] \/ loops[i].pc = "while" ]_vars

(***************************************************************************)
(* Further properties of the frame buffer                                  *)
(***************************************************************************)
Unconsumed(fs) == {i \in DOMAIN fs : ~fs[i].is_consumed}

\* frames sit in the buffer in the order they arrived, every one older
\* than the next frame the decoder will hand out
ArrivalOrdered ==
    /\ \A i, j \in DOMAIN frames :
          i < j => frames[i].timestamp < frames[j].timestamp
    /\ \A i \in DOMAIN frames :
          frames[i].timestamp < frames_decoded * FrameIntervalUs

\* get_next_frame returns the oldest unconsumed frame of the buffer and
\* leaves it consumed, and returns none only when there is none
ReturnsOldestUnconsumed ==
    GetNextFrame =>
        IF Unconsumed(frames) = {}
        THEN ~fb_ret'.ok
        ELSE /\ fb_ret'.ok
             /\ \E i \in Unconsumed(frames) :
                   /\ fb_ret'.frame = frames[i].timestamp
                   /\ \A j \in Unconsumed(frames) :
                         frames[i].timestamp <= frames[j].timestamp
             /\ \A j \in DOMAIN frames' :
                   frames'[j].timestamp = fb_ret'.frame
                       => frames'[j].is_consumed

\* no step makes a frame available again: an unconsumed frame of the buffer
\* was there unconsumed before the step, or is the frame the step added
NoFrameComesBack ==
    \A j \in Unconsumed(frames') :
       \/ \E i \in Unconsumed(frames) : frames[i] = frames'[j]
       \/ frames'[j].timestamp = frames_decoded * FrameIntervalUs

\* C32: get_next_frame hands the frames out in arrival order, each at most
\* once: it returns and marks consumed the oldest unconsumed frame, none
\* only when no unconsumed frame is buffered; a frame once returned is
\* consumed or gone and no step brings it back, so it is never returned
\* again, nor is any frame older than one already returned.
C32_FramesInOrderOnce ==
    /\ []ArrivalOrdered
    /\ [][ReturnsOldestUnconsumed]_vars
    /\ [][NoFrameComesBack]_vars

\* three frames were added, the first two have been returned, and the call
\* just made popped the first and returned the second
C32_Witness ==
    /\ fb_ret.op = "get_next_frame"
    /\ fb_ret.ok
    /\ fb_ret.frame = FrameIntervalUs
    /\ Len(frames) = 2
    /\ frames[1].timestamp = FrameIntervalUs
    /\ frames[1].is_consumed
    /\ ~frames[2].is_consumed

(***************************************************************************)
(* Termination of the chunk cache's calls                                  *)
(***************************************************************************)
\* C33: every call of the chunk cache returns: no store, get, cleanup or
\* clear leaves its thread waiting for a lock that its own call chain
\* holds.
C33_EveryCallReturns ==
    /\ ret.returned
    /\ parked = "none"

(***************************************************************************)
(* Further properties of the chunk manager                                 *)
(***************************************************************************)
QueuedIds == {pending_chunks[i].id : i \in DOMAIN pending_chunks}

\* C34: the id index, the sequence index and the pending queue hold the
\* same chunks: every queued chunk is in the id index, once, and every
\* indexed chunk is queued; the sequence index maps each tracked chunk's
\* sequence number to its id and nothing else; current_pending is the
\* length of the queue.
C34_IndexesAgree ==
    /\ QueuedIds = DOMAIN chunks_by_id
    /\ Cardinality(QueuedIds) = Len(pending_chunks)
    /\ \A i \in DOMAIN pending_chunks :
          chunks_by_id[pending_chunks[i].id].sequence_number
              = pending_chunks[i].sequence_number
    /\ \A s \in DOMAIN chunks_by_sequence :
          /\ chunks_by_sequence[s] \in DOMAIN chunks_by_id
          /\ chunks_by_id[chunks_by_sequence[s]].sequence_number = s
    /\ \A id \in DOMAIN chunks_by_id :
          /\ chunks_by_id[id].sequence_number \in DOMAIN chunks_by_sequence
          /\ chunks_by_sequence[chunks_by_id[id].sequence_number] = id
    /\ cm_stats.current_pending = Len(pending_chunks)

\* the fifth add_chunk of a manager that was never cleared found the four
\* places taken and reclaimed a processed chunk
C34_Witness ==
    /\ cm_ret.op = "add_chunk"
    /\ cm_stats.total_chunks = 5
    /\ next_sequence = 5
    /\ Len(pending_chunks) = 4
    /\ Cardinality(DOMAIN chunks_by_id) = 4

(***************************************************************************)
(* Further properties of the persistent cache                              *)
(***************************************************************************)
\* the sum of the file sizes the entries of m record
RECURSIVE RecordedSize(_, _)
RecordedSize(m, ids) ==
    IF ids = {} THEN 0
    ELSE LET id == CHOOSE x \in ids : TRUE
         IN  m[id].file_size + RecordedSize(m, ids \ {id})

\* C35: the cache's current size is the sum of the file sizes recorded by
\* the entries of the metadata, whatever stores, gets, cleanups, clears,
\* backups and restores have been made.
C35_SizeIsSumOfEntries ==
    pc_current_cache_size = RecordedSize(pc_chunks, DOMAIN pc_chunks)

\* C36: with the engine running, a decoder that succeeds and a loop that
\* is scheduled, the chunks marked processed never outnumber the chunks
\* added, and a pending queue that holds chunks is eventually drained.
C36_PipelineProgress ==
    /\ [](cm_stats.processed_chunks <= cm_stats.total_chunks)
    /\ (pending_chunks # <<>> ~> pending_chunks = <<>>)

(***************************************************************************)
(* Further properties of the memory guard                                  *)
(***************************************************************************)
\* C37: whatever get_buffer and return_buffer calls the threads make, in
\* whatever order their steps fall, memory_usage stays within the budget
\* and does not go below zero.
C37_UsageWithinBudget ==
    /\ memory_usage <= fbm_config.max_memory
    /\ memory_usage >= 0

\* C38: the guard's tracked usage is the size of the frames handed out by
\* allocate_video_frame and not yet given to free_video_frame, so a freed
\* frame gives its bytes back, and allocate_video_frame returns null only
\* while some frame is outstanding.
C38_UsageIsOutstandingFrames ==
    /\ memory_usage = fbm_threads["t1"].held * fbm_config.buffer_size
    /\ (ms_ret.op = "get_buffer" /\ ms_ret.value = "None")
          => fbm_threads["t1"].held > 0

(***************************************************************************)
(* The engine's threads                                                    *)
(***************************************************************************)
\* the threads inside the body of processing_loop's while
InLoopBody == {i \in DOMAIN loops : loops[i].pc \notin {"while", "ended"}}

\* C39: however start and stop are called, at most one thread is inside
\* the body of the processing loop at any time.
C39_AtMostOneLoop == Cardinality(InLoopBody) <= 1

(***************************************************************************)
(* Readiness of the frame buffer                                           *)
(***************************************************************************)
\* C40: on a buffer that asks for at least one predecoded frame and has
\* room for target_fps / 2 frames, add_predecode_task, the worker and
\* add_frame bring the buffer to a state where the predecoded count
\* reaches the minimum and is_ready_for_playback is true.
C40_ReadinessReached ==
    <>( /\ get_predecoded_frame_count >= min_predecoded_frames
        /\ is_ready_for_playback )

\* no frame in the buffer is flagged as predecoded
C40_NothingPredecoded == get_predecoded_frame_count = 0

====
